---- MODULE Spec2Model ----
(***************************************************************************)
(* Verification model of the kernel core of the Raspberry Pi OS tutorials: *)
(*   - 05_drivers_gpio_uart/src/driver.rs        (DriverManager)           *)
(*   - 13_.../bsp/device_driver/arm/gicv2.rs     (GICv2 IRQ manager)       *)
(* Each subsystem has its own specification (SpecDrv, SpecGic) over the    *)
(* shared variable list; a subsystem's actions leave the others' state     *)
(* unchanged.                                                              *)
(***************************************************************************)
EXTENDS Integers, Sequences, FiniteSets, TLC

VARIABLES
    \* ---- driver.rs: DriverManagerInner and the execution of its users
    next_index,     \* DriverManagerInner.next_index
    descriptors,    \* DriverManagerInner.descriptors, slots 0 .. NUM_DRIVERS-1
    pc,             \* position of the (single) kernel thread in the driver code
    cursor,         \* slot the for_each_descriptor iterator is at
    calls,          \* driver init / post-init calls made by the current init_drivers
    printed,        \* lines println!-ed by the last enumerate
    registered,     \* history: the descriptors register_driver stored, in call order
    panic,          \* None, or the payload of the panic that halted the kernel
    \* ---- gicv2.rs: GICv2 and the execution of handle_pending_irqs
    handler_table,  \* GICv2.handler_table: the occupied slots and their descriptors
    enabled,        \* IRQ numbers passed to gicd.enable
    reg_arg,        \* irq_handler_descriptor of the last register_handler call
    reg_seen,       \* history: IRQ numbers register_handler was called for
    last_result,    \* what the last register_handler returned
    handler_printed,\* lines info!-ed by the last print_handler
    irq_pc,         \* position inside handle_pending_irqs
    irq_number,     \* local irq_number of handle_pending_irqs
    irq_desc,       \* local descriptor copied out of the table by the match
    irq_log,        \* effects of the current / last handle_pending_irqs
    resolved,       \* history: IRQ number -> descriptor its first completed dispatch found
    \* ---- the kernel around the GICv2 driver (state manager, core, write())
    phase,          \* state manager: "Init" during kernel bring-up, then "Frozen"
    irq_masked,     \* the core's IRQ mask (PSTATE.I)
    wr_pc,          \* "write" while normal context is inside handler_table.write()
    wr_arg,         \* the descriptor that write() is about to register
    \* ---- synchronization.rs: the NullLocks of the kernel and their users
    cell,           \* NullLock.data of every guard (the wrapped value)
    lock_stack,     \* closures currently inside NullLock::lock, innermost last
    lock_ret,       \* None, or the closure and the value the last lock() returned
    written,        \* history: per guard, the value its last writing closure left
    \* ---- boot.rs: the boot core on its way from EL2 to EL1
    boot_pc,        \* what the boot core executes next
    sysregs,        \* CNTHCTL_EL2, CNTVOFF_EL2, HCR_EL2, SPSR_EL2, ELR_EL2, SP_EL1
    cpu,            \* current exception level, DAIF masks, stack selection, SP
    stack_arg,      \* phys_boot_core_stack_end_exclusive_addr passed to _start_rust
    boot_log,       \* system-register writes and eret executed, in order
    kernel_steps,   \* steps the kernel has run since it was entered
    \* ---- gicv2.rs: GICv2::init on the cores
    ginit_pc,       \* position inside GICv2::init
    ginit_core,     \* cpu::smp::core_id() of the core executing init
    ginit_log,      \* gicd / gicc calls made by the current / last init
    ginit_ret,      \* None, or what the last init returned
    gic_hw,         \* Distributor brought up; cores whose CPU interface is set up
    \* ---- bsp/raspberrypi/driver.rs: the board's driver bring-up
    bsp_pc,         \* position inside bsp::driver::init
    INIT_DONE,      \* the static AtomicBool of bsp::driver::init
    bsp_ret,        \* None, or what the last bsp::driver::init returned
    cur_console,    \* None, or the driver post_init_uart registered as console
    pins_mapped,    \* GPIO.map_pl011_uart() has run
    hw_inited,      \* per board driver, how often its init() has run
    \* ---- gicv2.rs: a sequence of register_handler calls and their results
    reg_calls,      \* history: <<descriptor, result>> of every call, in call order
    \* ---- _arch/aarch64/time.rs: the generic timer and spin_for
    time_pc,        \* position inside spin_for
    frequency,      \* ARCH_TIMER_COUNTER_FREQUENCY as boot.s left it
    CNTPCT_EL0,     \* the physical counter
    spin_arg,       \* None, or the duration of the current / last spin_for
    spin_conv,      \* what duration.try_into() returned in that spin_for
    spin_target,    \* counter_value_target of that spin_for
    spin_elapsed,   \* history: counter ticks since that spin_for was entered
    spin_warned,    \* None, or the message spin_for passed to warn!
    \* ---- bcm2xxx_pl011_uart.rs: the PL011 registers and PL011UartInner::init
    uart_pc,        \* position inside PL011UartInner::init
    uart_regs,      \* CR, IBRD, FBRD, LCR_H and the pending interrupts
    tx_queued,      \* characters the UART still has to send (FR.BUSY when > 0)
    uart_log        \* register accesses of the current / last init, in order

drvVars == <<next_index, descriptors, pc, cursor, calls, printed, registered>>
gicVars == <<handler_table, enabled, reg_arg, reg_seen, last_result, handler_printed,
             irq_pc, irq_number, irq_desc, irq_log>>
vars == <<next_index, descriptors, pc, cursor, calls, printed, registered, panic,
          handler_table, enabled, reg_arg, reg_seen, last_result, handler_printed,
          irq_pc, irq_number, irq_desc, irq_log, resolved,
          phase, irq_masked, wr_pc, wr_arg,
          cell, lock_stack, lock_ret, written,
          boot_pc, sysregs, cpu, stack_arg, boot_log, kernel_steps,
          ginit_pc, ginit_core, ginit_log, ginit_ret, gic_hw,
          bsp_pc, INIT_DONE, bsp_ret, cur_console, pins_mapped, hw_inited,
          reg_calls,
          time_pc, frequency, CNTPCT_EL0, spin_arg, spin_conv, spin_target,
          spin_elapsed, spin_warned,
          uart_pc, uart_regs, tx_queued, uart_log>>

\* The kernel around the GICv2 driver: the state manager's phase, the core's
\* IRQ mask, and the position of a handler_table.write() in normal context.
kernVars == <<phase, irq_masked, wr_pc, wr_arg>>

\* The variables that are no part of the DriverManager / of the GICv2 state
\* proper; the actions of a subsystem leave the other subsystems' alone.

lockVars == <<cell, lock_stack, lock_ret, written>>

bootVars == <<boot_pc, sysregs, cpu, stack_arg, boot_log, kernel_steps>>

ginitVars == <<ginit_pc, ginit_core, ginit_log, ginit_ret, gic_hw>>

bspVars == <<bsp_pc, INIT_DONE, bsp_ret, cur_console, pins_mapped, hw_inited>>

regVars == <<reg_calls>>

timeVars == <<time_pc, frequency, CNTPCT_EL0, spin_arg, spin_conv, spin_target,
              spin_elapsed, spin_warned>>

uartVars == <<uart_pc, uart_regs, tx_queued, uart_log>>

drvFrame == <<resolved, kernVars, lockVars, bootVars, ginitVars, bspVars,
              regVars, timeVars, uartVars>>
gicFrame == <<kernVars, lockVars, bootVars, ginitVars, bspVars,
              regVars, timeVars, uartVars>>
kernFrame == <<lockVars, bootVars, ginitVars, bspVars, regVars, timeVars, uartVars>>
lockFrame == <<drvVars, gicVars, resolved, kernVars, bootVars, ginitVars, bspVars,
               regVars, timeVars, uartVars>>
bootFrame == <<drvVars, gicVars, resolved, kernVars, lockVars, ginitVars, bspVars, panic,
               regVars, timeVars, uartVars>>
ginitFrame == <<drvVars, gicVars, resolved, kernVars, lockVars, bootVars, bspVars, panic,
                regVars, timeVars, uartVars>>
bspFrame == <<resolved, kernVars, lockVars, bootVars, ginitVars,
              regVars, timeVars, uartVars>>
regFrame == <<resolved, kernVars, lockVars, bootVars, ginitVars, bspVars,
              timeVars, uartVars>>
timeFrame == <<drvVars, gicVars, resolved, kernVars, lockVars, bootVars, ginitVars,
               bspVars, regVars, uartVars, panic>>
uartFrame == <<drvVars, gicVars, resolved, kernVars, lockVars, bootVars, ginitVars,
               bspVars, regVars, timeVars, panic>>

(***************************************************************************)
(* Option<T>: None is the empty tuple, Some(x) the one-element tuple.      *)
(***************************************************************************)
None == <<>>
Some(x) == <<x>>
IsSome(o) == o # None
Unwrap(o) == o[1]

(***************************************************************************)
(* Result<(), &'static str>                                                *)
(***************************************************************************)
Ok == [ok |-> TRUE]
Err(x) == [ok |-> FALSE, err |-> x]
IsErr(r) == ~r.ok

\* driver.rs:17
NUM_DRIVERS == 5

\* The drivers (by compatible string) and post-init callbacks the board may
\* hand to the manager, and the errors a failing init or callback may report.
DriverNames == {"A", "B"}
Callbacks == {"cb"}
Errors == {"e1", "e2"}
Results == {Ok} \cup {Err(x) : x \in Errors}

\* driver.rs:57-63, 98-106
DeviceDriverDescriptor(driver, callback) ==
    [device_driver |-> driver, post_init_callback |-> callback]

Descriptors ==
    {DeviceDriverDescriptor(d, c) :
        d \in DriverNames, c \in {None} \cup {Some(cb) : cb \in Callbacks}}

\* driver.rs:38  compatible() of the driver a descriptor refers to
compatible(descriptor) == descriptor.device_driver

Slots == 0 .. (NUM_DRIVERS - 1)

\* driver.rs:84-89
DriverManagerInner_new ==
    /\ next_index = 0
    /\ descriptors = [s \in Slots |-> None]

\* driver.rs:134-139  descriptors.iter().filter_map(|x| x.as_ref()):
\* the first slot at or after `from` that holds a descriptor, NUM_DRIVERS when
\* the iterator is exhausted.
RECURSIVE NextDescriptor(_, _)
NextDescriptor(table, from) ==
    IF from >= NUM_DRIVERS THEN NUM_DRIVERS
    ELSE IF IsSome(table[from]) THEN from
    ELSE NextDescriptor(table, from + 1)

\* What a halted kernel reports: the panic message's format and its arguments
\* (numbers as the text they are printed as).
PanicInfo(msg, who, what) == [msg |-> msg, who |-> who, what |-> what]

Running == panic = None

\* The kernel thread is between two DriverManager calls: it has not called
\* one yet ("idle") or the last one it called has returned ("registered",
\* "done" for init_drivers, "enumerated").  Inside init_drivers pc is "init"
\* or "post"; a panic leaves the thread in the panic handler ("panic").
DrvIdle == pc \in {"idle", "registered", "done", "enumerated"}

\* ------------------------------------------------------------------------
\* DriverManager (driver.rs)
\* ------------------------------------------------------------------------

\* Mutant of register_driver: the descriptor is stored but next_index is
\* not advanced.
register_driver_keeps_index(descriptor) ==
    /\ Running
    /\ DrvIdle
    /\ IF next_index < NUM_DRIVERS
       THEN /\ descriptors' = [descriptors EXCEPT ![next_index] = Some(descriptor)]
            /\ next_index' = next_index
            /\ registered' = Append(registered, descriptor)
            /\ pc' = "registered"
            /\ UNCHANGED panic
       ELSE /\ panic' = Some(PanicInfo("index out of bounds", "register_driver", ToString(next_index)))
            /\ pc' = "panic"
            /\ UNCHANGED <<descriptors, next_index, registered>>
    /\ UNCHANGED <<cursor, calls, printed>>
    /\ UNCHANGED gicVars

\* Mutant of register_driver: a full registry is handled by overwriting the
\* last slot instead of faulting on the out-of-bounds index.
register_driver_overwrites_last(descriptor) ==
    /\ Running
    /\ DrvIdle
    /\ IF next_index < NUM_DRIVERS
       THEN /\ descriptors' = [descriptors EXCEPT ![next_index] = Some(descriptor)]
            /\ next_index' = next_index + 1
            /\ registered' = Append(registered, descriptor)
       ELSE /\ descriptors' = [descriptors EXCEPT ![NUM_DRIVERS - 1] = Some(descriptor)]
            /\ UNCHANGED <<next_index, registered>>
    /\ pc' = "registered"
    /\ UNCHANGED <<cursor, calls, printed, panic>>
    /\ UNCHANGED gicVars

\* driver.rs:124-129  register_driver.  The slot write is a bounds-checked
\* array index: with next_index = NUM_DRIVERS it panics before anything is
\* written; register_driver has no error return.
register_driver(descriptor) ==
    /\ Running
    /\ DrvIdle
    /\ IF next_index < NUM_DRIVERS
       THEN /\ descriptors' = [descriptors EXCEPT ![next_index] = Some(descriptor)]
            /\ next_index' = next_index + 1
            /\ registered' = Append(registered, descriptor)
            /\ pc' = "registered"
            /\ UNCHANGED panic
       ELSE /\ panic' = Some(PanicInfo("index out of bounds", "register_driver", ToString(next_index)))
            /\ pc' = "panic"
            /\ UNCHANGED <<descriptors, next_index, registered>>
    /\ UNCHANGED <<cursor, calls, printed>>
    /\ UNCHANGED gicVars

\* Mutant of for_each_next: the traversal steps over one slot too many.
for_each_next_skips_one(from) ==
    LET n == NextDescriptor(descriptors, IF from = 0 THEN 0 ELSE from + 1)
    IN  /\ cursor' = n
        /\ pc' = IF n >= NUM_DRIVERS THEN "done" ELSE "init"

\* driver.rs:132-141  for_each_descriptor moving on to the next descriptor
\* after the closure returned for the one at `from - 1`; the traversal (and
\* with it init_drivers) returns when the iterator is exhausted.
for_each_next(from) ==
    LET n == NextDescriptor(descriptors, from)
    IN  /\ cursor' = n
        /\ pc' = IF n >= NUM_DRIVERS THEN "done" ELSE "init"

\* One entry of `calls`: init ("init") or the post-init callback ("post") of
\* the descriptor in `slot` was called and returned `result`.
DriverCall(op, slot, who, result) ==
    [op |-> op, slot |-> slot, who |-> who, result |-> result]

\* driver.rs:148-149  init_drivers is entered: the traversal starts at slot 0.
init_drivers_begin ==
    /\ Running
    /\ DrvIdle
    /\ calls' = <<>>
    /\ for_each_next(0)
    /\ UNCHANGED <<next_index, descriptors, printed, registered, panic>>
    /\ UNCHANGED gicVars

\* Mutant of driver_init_returns: the result of init is dropped, an Err does
\* not stop the traversal.
driver_init_ignores_error(r) ==
    LET descriptor == Unwrap(descriptors[cursor])
    IN  /\ calls' = Append(calls, DriverCall("init", cursor, compatible(descriptor), r))
        /\ UNCHANGED panic
        /\ IF IsSome(descriptor.post_init_callback)
           THEN pc' = "post" /\ UNCHANGED cursor
           ELSE for_each_next(cursor + 1)

\* driver.rs:153-159  step 1 of the closure: the driver's init returned r.
driver_init_returns(r) ==
    LET descriptor == Unwrap(descriptors[cursor])
    IN  /\ calls' = Append(calls, DriverCall("init", cursor, compatible(descriptor), r))
        /\ IF IsErr(r)
           THEN /\ panic' = Some(PanicInfo("Error initializing driver",
                                           compatible(descriptor), r.err))
                /\ pc' = "panic"
                /\ UNCHANGED cursor
           ELSE /\ UNCHANGED panic
                /\ IF IsSome(descriptor.post_init_callback)
                   THEN pc' = "post" /\ UNCHANGED cursor
                   ELSE for_each_next(cursor + 1)

init_drivers_init ==
    /\ Running
    /\ pc = "init"
    /\ \E r \in Results : driver_init_returns(r)
    /\ UNCHANGED <<next_index, descriptors, printed, registered>>
    /\ UNCHANGED gicVars

\* driver.rs:163-173  step 2 of the closure: the post-init callback returned r.
post_init_returns(r) ==
    LET descriptor == Unwrap(descriptors[cursor])
    IN  /\ calls' = Append(calls, DriverCall("post", cursor, compatible(descriptor), r))
        /\ IF IsErr(r)
           THEN /\ panic' = Some(PanicInfo("Error during driver post-init callback",
                                           compatible(descriptor), r.err))
                /\ pc' = "panic"
                /\ UNCHANGED cursor
           ELSE /\ UNCHANGED panic
                /\ for_each_next(cursor + 1)

init_drivers_post ==
    /\ Running
    /\ pc = "post"
    /\ \E r \in Results : post_init_returns(r)
    /\ UNCHANGED <<next_index, descriptors, printed, registered>>
    /\ UNCHANGED gicVars

\* driver.rs:179-186  the lines enumerate prints for the descriptors found
\* from slot `from` on, the next line being numbered i.
RECURSIVE enumerate_lines(_, _, _)
enumerate_lines(table, from, i) ==
    IF from >= NUM_DRIVERS THEN <<>>
    ELSE IF IsSome(table[from])
         THEN <<[i |-> i, name |-> compatible(Unwrap(table[from]))]>>
              \o enumerate_lines(table, from + 1, i + 1)
         ELSE enumerate_lines(table, from + 1, i)

\* Mutant of enumerate_output: the line counter starts at 0.
enumerate_output_from_zero(table) == enumerate_lines(table, 0, 0)

\* driver.rs:180-185  `let mut i = 1` and the traversal from the first slot
enumerate_output(table) == enumerate_lines(table, 0, 1)

\* Mutant of enumerate: the traversal consumes the registry, the next free
\* index is reset once the lines are printed.
enumerate_resets_index ==
    /\ Running
    /\ DrvIdle
    /\ printed' = enumerate_output(descriptors)
    /\ pc' = "enumerated"
    /\ next_index' = 0
    /\ UNCHANGED <<descriptors, cursor, calls, registered, panic>>
    /\ UNCHANGED gicVars

\* driver.rs:179-186
enumerate ==
    /\ Running
    /\ DrvIdle
    /\ printed' = enumerate_output(descriptors)
    /\ pc' = "enumerated"
    /\ UNCHANGED <<next_index, descriptors, cursor, calls, registered, panic>>
    /\ UNCHANGED gicVars

\* ------------------------------------------------------------------------
\* GICv2 (gicv2.rs)
\* ------------------------------------------------------------------------

\* gicv2.rs:119
MAX_IRQ_NUMBER == 300

\* gicv2.rs:100  IRQNumber = BoundedUsize<MAX_IRQ_NUMBER>
IRQNumber == 0 .. MAX_IRQ_NUMBER

\* gicv2.rs:166  the IRQHandlerDescriptor values (number, name, handler) that
\* drivers hand to register_handler; two of them compete for IRQ 33.
IRQHandlerDescriptor(number, name, handler) ==
    [number |-> number, name |-> name, handler |-> handler]

HandlerDescriptors ==
    { IRQHandlerDescriptor(0, "sgi", "h_sgi"),
      IRQHandlerDescriptor(33, "timer", "h_timer"),
      IRQHandlerDescriptor(33, "timer_b", "h_timer_b"),
      IRQHandlerDescriptor(153, "uart", "h_uart"),
      IRQHandlerDescriptor(300, "last", "h_last") }

\* gicv2.rs:181  the numbers the kernel enables
EnableInputs == {33, 153}

\* gicv2.rs:191  values the Interrupt Acknowledge Register may report: the
\* numbers above, the first out-of-range number, and the architectural
\* spurious ID 1023.
AckValues == {0, 33, 153, 300, 301, 1023}

\* gicv2.rs:92-93  HandlerTable is an array of MAX_IRQ_NUMBER + 1 Option
\* slots.  It is represented by the function from the occupied slot numbers
\* to the descriptors they hold; TableSlot(table, n) is the array element
\* table[n] for an index n within the array.
TableSlot(table, n) == IF n \in DOMAIN table THEN Some(table[n]) ELSE None

\* table[n] = Some(descriptor)
TableStore(table, n, descriptor) ==
    [m \in DOMAIN table \cup {n} |-> IF m = n THEN descriptor ELSE table[m]]

\* gicv2.rs:132  [None; IRQNumber::MAX_INCLUSIVE + 1]: every slot is None
GICv2_new == handler_table = <<>>

IrqIdle == irq_pc \in {"idle", "returned"}

\* Mutant of register_handler: the is_some() check is missing, a second
\* registration replaces the descriptor in the slot.
register_handler_overwrites(irq_handler_descriptor) ==
    LET n == irq_handler_descriptor.number
    IN  /\ Running
        /\ IrqIdle
        /\ handler_table' = TableStore(handler_table, n, irq_handler_descriptor)
        /\ last_result' = Ok
        /\ reg_arg' = Some(irq_handler_descriptor)
        /\ reg_seen' = reg_seen \cup {n}
        /\ UNCHANGED <<enabled, handler_printed, irq_pc, irq_number, irq_desc, irq_log, panic>>
        /\ UNCHANGED drvVars

\* Mutant of register_handler: a duplicate registration is refused, but the
\* slot is taken by the refused descriptor.
register_handler_refuses_but_stores(irq_handler_descriptor) ==
    LET n == irq_handler_descriptor.number
    IN  /\ Running
        /\ IrqIdle
        /\ handler_table' = TableStore(handler_table, n, irq_handler_descriptor)
        /\ last_result' = IF IsSome(TableSlot(handler_table, n))
                          THEN Err("IRQ handler already registered") ELSE Ok
        /\ reg_arg' = Some(irq_handler_descriptor)
        /\ reg_seen' = reg_seen \cup {n}
        /\ UNCHANGED <<enabled, handler_printed, irq_pc, irq_number, irq_desc, irq_log, panic>>
        /\ UNCHANGED drvVars

\* Mutant of register_handler: the occupancy test looks at the whole table
\* instead of the slot of the descriptor's number.
register_handler_checks_any_slot(irq_handler_descriptor) ==
    LET n == irq_handler_descriptor.number
    IN  /\ Running
        /\ IrqIdle
        /\ IF DOMAIN handler_table # {}
           THEN /\ last_result' = Err("IRQ handler already registered")
                /\ UNCHANGED handler_table
           ELSE /\ handler_table' = TableStore(handler_table, n, irq_handler_descriptor)
                /\ last_result' = Ok
        /\ reg_arg' = Some(irq_handler_descriptor)
        /\ reg_seen' = reg_seen \cup {n}
        /\ UNCHANGED <<enabled, handler_printed, irq_pc, irq_number, irq_desc, irq_log, panic>>
        /\ UNCHANGED drvVars

\* gicv2.rs:164-179  register_handler (the closure run by handler_table.write)
register_handler(irq_handler_descriptor) ==
    LET n == irq_handler_descriptor.number
    IN  /\ Running
        /\ IrqIdle
        /\ IF IsSome(TableSlot(handler_table, n))
           THEN /\ last_result' = Err("IRQ handler already registered")
                /\ UNCHANGED handler_table
           ELSE /\ handler_table' = TableStore(handler_table, n, irq_handler_descriptor)
                /\ last_result' = Ok
        /\ reg_arg' = Some(irq_handler_descriptor)
        /\ reg_seen' = reg_seen \cup {n}
        /\ UNCHANGED <<enabled, handler_printed, irq_pc, irq_number, irq_desc, irq_log, panic>>
        /\ UNCHANGED drvVars

\* gicv2.rs:181-183  enable delegates to the Distributor
enable(n) ==
    /\ Running
    /\ IrqIdle
    /\ enabled' = enabled \cup {n}
    /\ UNCHANGED <<handler_table, reg_arg, reg_seen, last_result, handler_printed,
                   irq_pc, irq_number, irq_desc, irq_log, panic>>
    /\ UNCHANGED drvVars

IrqEvent(ev, n, who) == [ev |-> ev, n |-> n, who |-> who]

\* Mutant of irq_acknowledge: the spurious check is off by one (>=).
irq_acknowledge_off_by_one(iar) ==
    /\ irq_number' = iar
    /\ irq_log' = <<IrqEvent("ack", iar, "")>>
    /\ irq_pc' = IF iar >= MAX_IRQ_NUMBER THEN "returned" ELSE "lookup"

\* gicv2.rs:189-196  the acknowledge register is read; a value above
\* MAX_IRQ_NUMBER is spurious and handle_pending_irqs returns at once.
irq_acknowledge(iar) ==
    /\ irq_number' = iar
    /\ irq_log' = <<IrqEvent("ack", iar, "")>>
    /\ irq_pc' = IF iar > MAX_IRQ_NUMBER THEN "returned" ELSE "lookup"

handle_pending_irqs_begin ==
    /\ Running
    /\ IrqIdle
    /\ \E iar \in AckValues : irq_acknowledge(iar)
    /\ irq_desc' = None
    /\ UNCHANGED <<handler_table, enabled, reg_arg, reg_seen, last_result, handler_printed, panic>>
    /\ UNCHANGED drvVars

\* Mutant of irq_dispatch: an unhandled IRQ is completed before the panic.
irq_dispatch_completes_unhandled(n) ==
    LET slot == TableSlot(handler_table, n)
    IN
    IF IsSome(slot)
    THEN /\ irq_desc' = slot
         /\ irq_log' = irq_log \o <<IrqEvent("read", irq_number, ""),
                                    IrqEvent("handle", Unwrap(slot).number, Unwrap(slot).handler)>>
         /\ irq_pc' = "handler"
         /\ UNCHANGED panic
    ELSE /\ panic' = Some(PanicInfo("No handler registered for IRQ", "", ToString(irq_number)))
         /\ irq_log' = irq_log \o <<IrqEvent("read", irq_number, ""),
                                    IrqEvent("eoi", irq_number, "")>>
         /\ irq_pc' = "panic"
         /\ UNCHANGED irq_desc

\* gicv2.rs:199-204  the read closure on the slot table[irq_number]: panics
\* on None, otherwise copies the descriptor out and calls its handler's
\* handle().  (An index past the end of the array would panic as well.)
irq_dispatch(n) ==
    LET slot == TableSlot(handler_table, n)
    IN
    IF n \notin IRQNumber
    THEN /\ panic' = Some(PanicInfo("index out of bounds", "handle_pending_irqs", ToString(n)))
         /\ irq_pc' = "panic"
         /\ UNCHANGED <<irq_desc, irq_log>>
    ELSE IF IsSome(slot)
    THEN /\ irq_desc' = slot
         /\ irq_log' = irq_log \o <<IrqEvent("read", irq_number, ""),
                                    IrqEvent("handle", Unwrap(slot).number, Unwrap(slot).handler)>>
         /\ irq_pc' = "handler"
         /\ UNCHANGED panic
    ELSE /\ panic' = Some(PanicInfo("No handler registered for IRQ", "", ToString(irq_number)))
         /\ irq_log' = Append(irq_log, IrqEvent("read", irq_number, ""))
         /\ irq_pc' = "panic"
         /\ UNCHANGED irq_desc

\* Mutant of handle_pending_irqs_lookup: the descriptor is taken out of the
\* slot (Option::take) instead of being read.
handle_pending_irqs_lookup_takes ==
    /\ Running
    /\ irq_pc = "lookup"
    /\ irq_dispatch(irq_number)
    /\ handler_table' = [m \in DOMAIN handler_table \ {irq_number} |-> handler_table[m]]
    /\ UNCHANGED <<enabled, reg_arg, reg_seen, last_result, handler_printed, irq_number>>
    /\ UNCHANGED drvVars

\* gicv2.rs:198-205  handler_table.read(...) around the dispatch
handle_pending_irqs_lookup ==
    /\ Running
    /\ irq_pc = "lookup"
    /\ irq_dispatch(irq_number)
    /\ UNCHANGED <<handler_table, enabled, reg_arg, reg_seen, last_result, handler_printed, irq_number>>
    /\ UNCHANGED drvVars

\* Mutant of irq_handler_returns: the Result of handle() is discarded.
irq_handler_ignores_error(r) ==
    /\ irq_log' = Append(irq_log, IrqEvent("return", irq_number, IF IsErr(r) THEN r.err ELSE "Ok"))
    /\ irq_pc' = "complete"
    /\ UNCHANGED panic

\* gicv2.rs:204  handle() returned r; expect() panics on Err.
irq_handler_returns(r) ==
    /\ irq_log' = Append(irq_log, IrqEvent("return", irq_number, IF IsErr(r) THEN r.err ELSE "Ok"))
    /\ IF IsErr(r)
       THEN /\ panic' = Some(PanicInfo("Error handling IRQ", Unwrap(irq_desc).handler, r.err))
            /\ irq_pc' = "panic"
       ELSE /\ irq_pc' = "complete"
            /\ UNCHANGED panic

handle_pending_irqs_handler ==
    /\ Running
    /\ irq_pc = "handler"
    /\ \E r \in Results : irq_handler_returns(r)
    /\ UNCHANGED <<handler_table, enabled, reg_arg, reg_seen, last_result, handler_printed, irq_number, irq_desc>>
    /\ UNCHANGED drvVars

\* Mutant of irq_mark_completed: the number is narrowed to 8 bits on its way
\* to the End Of Interrupt register.
irq_mark_completed_truncates ==
    /\ irq_log' = Append(irq_log, IrqEvent("eoi", irq_number % 256, ""))
    /\ irq_pc' = "returned"

\* gicv2.rs:209-211  gicc.mark_comleted(irq_number as u32), then return.
irq_mark_completed ==
    /\ irq_log' = Append(irq_log, IrqEvent("eoi", irq_number, ""))
    /\ irq_pc' = "returned"

\* Mutant of handle_pending_irqs_complete: the dispatched slot is cleared on
\* completion, a table write made from interrupt context.
handle_pending_irqs_complete_clears_slot ==
    /\ Running
    /\ irq_pc = "complete"
    /\ irq_mark_completed
    /\ handler_table' = [m \in DOMAIN handler_table \ {irq_number} |-> handler_table[m]]
    /\ UNCHANGED <<enabled, reg_arg, reg_seen, last_result, handler_printed, irq_number, irq_desc, panic>>
    /\ UNCHANGED drvVars

\* gicv2.rs:209-211
handle_pending_irqs_complete ==
    /\ Running
    /\ irq_pc = "complete"
    /\ irq_mark_completed
    /\ UNCHANGED <<handler_table, enabled, reg_arg, reg_seen, last_result, handler_printed, irq_number, irq_desc, panic>>
    /\ UNCHANGED drvVars

\* Mutant of print_handler_lines: the offset of skip() is not added back,
\* a slot is reported under its position in the skipped iterator.
print_handler_lines_offset_lost(table, from) ==
    LET occupied == {n \in from .. MAX_IRQ_NUMBER : IsSome(TableSlot(table, n))}
        kth(k) == CHOOSE n \in occupied : Cardinality({m \in occupied : m < n}) = k - 1
    IN  [k \in 1 .. Cardinality(occupied) |->
            [i |-> kth(k) - from, name |-> Unwrap(TableSlot(table, kth(k))).name]]

\* gicv2.rs:219-223  the lines print_handler emits.  table.iter().skip(32)
\* .enumerate() walks the slots 32, 33, ... MAX_IRQ_NUMBER in ascending order
\* and numbers the slot at offset i as i + 32; only occupied slots print.
\* The k-th line is therefore that of the k-th smallest occupied slot >= from.
print_handler_lines(table, from) ==
    LET occupied == {n \in from .. MAX_IRQ_NUMBER : IsSome(TableSlot(table, n))}
        kth(k) == CHOOSE n \in occupied : Cardinality({m \in occupied : m < n}) = k - 1
    IN  [k \in 1 .. Cardinality(occupied) |->
            [i |-> kth(k), name |-> Unwrap(TableSlot(table, kth(k))).name]]

\* gicv2.rs:213-225
print_handler ==
    /\ Running
    /\ IrqIdle
    /\ handler_printed' = print_handler_lines(handler_table, 32)
    /\ UNCHANGED <<handler_table, enabled, reg_arg, reg_seen, last_result,
                   irq_pc, irq_number, irq_desc, irq_log, panic>>
    /\ UNCHANGED drvVars

\* ------------------------------------------------------------------------
\* synchronization.rs: NullLock, and the kernel's users of its guards
\* ------------------------------------------------------------------------

\* Largest chars_written the console statistics reach in the model.
MaxCharsWritten == 3

\* driver.rs:68 DriverManager.inner, bcm2xxx_pl011_uart.rs:185 PL011Uart.inner
Guards == {"DRIVER_MANAGER", "PL011_UART"}

\* synchronization.rs:53-59  NullLock::new(data).  The wrapped value is
\* represented by the field the closures read and write: next_index of the
\* DriverManagerInner, chars_written of the PL011UartInner; both start at 0.
NullLock_new(g) == 0

Unit == [kind |-> "unit", n |-> 0]
Usize(n) == [kind |-> "usize", n |-> n]

\* The closures the kernel passes to lock(): driver.rs:125-128 (register),
\* driver.rs:133-140 (for_each), bcm2xxx_pl011_uart.rs:364 (init), 376
\* (write_char), 382 (write_fmt of a text of n chars), 415 (chars_written).
Closure(guard, kind, n) == [guard |-> guard, kind |-> kind, n |-> n]

Closures ==
    {Closure("DRIVER_MANAGER", k, 0) : k \in {"register_driver", "for_each_descriptor"}}
    \cup {Closure("PL011_UART", k, 0) : k \in {"init", "chars_written"}}
    \cup {Closure("PL011_UART", "write_char", 1)}
    \cup {Closure("PL011_UART", "write_fmt", n) : n \in {0, 2}}

Writes(f) == f.kind \in {"register_driver", "write_char", "write_fmt"}

\* f(data): the value the closure leaves behind the &mut and what it returns.
\* register_driver: next_index += 1; write_char / write_fmt: chars_written
\* += 1 per character (bcm2xxx_pl011_uart.rs:267); chars_written returns the
\* field; init and for_each_descriptor leave the field alone.
ClosureApply(f, data) ==
    IF Writes(f) THEN [data |-> data + (IF f.kind = "register_driver" THEN 1 ELSE f.n),
                       ret |-> Unit]
    ELSE IF f.kind = "chars_written" THEN [data |-> data, ret |-> Usize(data)]
    ELSE [data |-> data, ret |-> Unit]

Frame(f) == [f |-> f, done |-> FALSE, ret |-> Unit]

Top == lock_stack[Len(lock_stack)]

\* The number of closures that hold the &mut of guard g.
Holders(g) == Cardinality({k \in DOMAIN lock_stack : lock_stack[k].f.guard = g})

\* Mutant of CanAcquire: PL011UartInner::init prints through the console,
\* which locks the UART it is called under.
CanAcquire_init_prints(f) ==
    \/ lock_stack = <<>>
    \/ /\ lock_stack # <<>>
       /\ Top.f.kind = "for_each_descriptor"
       /\ ~Top.done
       /\ f.guard = "PL011_UART"
       /\ f.kind \in {"init", "write_fmt"}
    \/ /\ lock_stack # <<>>
       /\ Top.f.kind = "init"
       /\ ~Top.done
       /\ f.guard = "PL011_UART"
       /\ f.kind = "write_fmt"

\* Mutant of CanAcquire: a driver callback run by for_each_descriptor calls
\* back into the DriverManager.
CanAcquire_reentrant(f) ==
    \/ lock_stack = <<>>
    \/ /\ lock_stack # <<>>
       /\ Top.f.kind = "for_each_descriptor"
       /\ ~Top.done

\* Where the kernel calls lock(): from the top level (no closure running),
\* and nested inside the for_each_descriptor closure, whose callbacks are the
\* drivers' init (bcm2xxx_pl011_uart.rs:363-364) and the println! of
\* enumerate / panic! (driver.rs:148-186), which lock the UART.
CanAcquire(f) ==
    \/ lock_stack = <<>>
    \/ /\ lock_stack # <<>>
       /\ Top.f.kind = "for_each_descriptor"
       /\ ~Top.done
       /\ f.guard = "PL011_UART"
       /\ f.kind \in {"init", "write_fmt"}

\* synchronization.rs:75  let data = unsafe { &mut *self.data.get() }: the
\* reference is handed out with no check of other holders.
lock_enter(f) ==
    /\ Running
    /\ CanAcquire(f)
    /\ f.guard = "PL011_UART" => cell[f.guard] + f.n <= MaxCharsWritten
    /\ lock_stack' = Append(lock_stack, Frame(f))
    /\ UNCHANGED <<cell, lock_ret, written, panic>>
    /\ UNCHANGED lockFrame

\* Mutant of closure_body: the closure works on a copy of the wrapped value.
closure_body_on_copy ==
    /\ Running
    /\ lock_stack # <<>>
    /\ ~Top.done
    /\ LET f == Top.f
           r == ClosureApply(f, cell[f.guard])
       IN  /\ lock_stack' = [lock_stack EXCEPT ![Len(lock_stack)] =
                                [f |-> f, done |-> TRUE, ret |-> r.ret]]
           /\ written' = IF Writes(f) THEN [written EXCEPT ![f.guard] = r.data] ELSE written
           /\ UNCHANGED <<cell, panic>>
    /\ UNCHANGED lock_ret
    /\ UNCHANGED lockFrame

\* synchronization.rs:78  f(data): the innermost closure runs on the wrapped
\* value.  driver.rs:126 panics on a full registry (index out of bounds).
closure_body ==
    /\ Running
    /\ lock_stack # <<>>
    /\ ~Top.done
    /\ LET f == Top.f
           r == ClosureApply(f, cell[f.guard])
       IN  IF f.kind = "register_driver" /\ cell[f.guard] >= NUM_DRIVERS
           THEN /\ panic' = Some(PanicInfo("index out of bounds", "register_driver",
                                           ToString(cell[f.guard])))
                /\ UNCHANGED <<cell, lock_stack, written>>
           ELSE /\ cell' = [cell EXCEPT ![f.guard] = r.data]
                /\ lock_stack' = [lock_stack EXCEPT ![Len(lock_stack)] =
                                     [f |-> f, done |-> TRUE, ret |-> r.ret]]
                /\ written' = IF Writes(f) THEN [written EXCEPT ![f.guard] = r.data]
                               ELSE written
                /\ UNCHANGED panic
    /\ UNCHANGED lock_ret
    /\ UNCHANGED lockFrame

\* synchronization.rs:78  lock() returns what f returned; the &mut ends.
lock_return ==
    /\ Running
    /\ lock_stack # <<>>
    /\ Top.done
    /\ lock_ret' = Some([f |-> Top.f, ret |-> Top.ret])
    /\ lock_stack' = SubSeq(lock_stack, 1, Len(lock_stack) - 1)
    /\ UNCHANGED <<cell, written, panic>>
    /\ UNCHANGED lockFrame

\* ------------------------------------------------------------------------
\* boot.rs: the descent from EL2 to EL1
\* ------------------------------------------------------------------------

\* Steps of the kernel that the model follows after it has been entered.
MaxKernelSteps == 2

\* SPSR_EL2 / PSTATE: the four masks and the mode field M
Spsr(d, a, i, f, m) == [D |-> d, A |-> a, I |-> i, F |-> f, M |-> m]

SysRegs(cnthctl, cntvoff, hcr, spsr, elr, sp_el1) ==
    [CNTHCTL_EL2 |-> cnthctl, CNTVOFF_EL2 |-> cntvoff, HCR_EL2 |-> hcr,
     SPSR_EL2 |-> spsr, ELR_EL2 |-> elr, SP_EL1 |-> sp_el1]

Cpu(el, pstate, sp) == [el |-> el, pstate |-> pstate, sp |-> sp]

\* Values the system registers may hold before boot.rs writes them (they are
\* architecturally UNKNOWN at reset), and the stack addresses _start passes.
ResetSpsr == {Spsr(FALSE, FALSE, FALSE, FALSE, "EL0t"), Spsr(TRUE, TRUE, FALSE, TRUE, "EL2h")}
ResetSysRegs ==
    {SysRegs(c, v, h, s, e, p) :
        c \in {{}, {"EL1PCEN"}}, v \in {0, 7},
        h \in {"AllLowerELsAreAarch32", "EL1IsAarch64"},
        s \in ResetSpsr, e \in {"unknown", "_start_rust"}, p \in {0, 4096}}
BootStackAddrs == {524288, 589824}

\* The statements of _start_rust in program order (boot.rs:39-64, 89).
BootOrder == <<"CNTHCTL_EL2", "CNTVOFF_EL2", "HCR_EL2", "SPSR_EL2", "ELR_EL2", "SP_EL1", "eret">>

\* boot.rs:79  _start calls _start_rust at EL2 with the stack address in x0;
\* the registers hold whatever reset left in them.
start_rust_entered ==
    /\ boot_pc = "reset"
    /\ \E r \in ResetSysRegs : sysregs' = r
    /\ \E a \in BootStackAddrs : stack_arg' = a /\ cpu' = [cpu EXCEPT !.sp = a]
    /\ boot_pc' = "CNTHCTL_EL2"
    /\ UNCHANGED <<boot_log, kernel_steps>>
    /\ UNCHANGED bootFrame

\* A system-register write of prepare_el2_to_el1_transition; next is the
\* statement that follows it.
SysRegWrite(reg, value, next) ==
    /\ sysregs' = [sysregs EXCEPT ![reg] = value]
    /\ boot_log' = Append(boot_log, reg)
    /\ boot_pc' = next
    /\ UNCHANGED <<cpu, stack_arg, kernel_steps>>
    /\ UNCHANGED bootFrame

\* boot.rs:39
prepare_CNTHCTL_EL2 ==
    /\ boot_pc = "CNTHCTL_EL2"
    /\ SysRegWrite("CNTHCTL_EL2", {"EL1PCEN", "EL1PCTEN"}, "CNTVOFF_EL2")

\* boot.rs:42
prepare_CNTVOFF_EL2 ==
    /\ boot_pc = "CNTVOFF_EL2"
    /\ SysRegWrite("CNTVOFF_EL2", 0, "HCR_EL2")

\* boot.rs:45
prepare_HCR_EL2 ==
    /\ boot_pc = "HCR_EL2"
    /\ SysRegWrite("HCR_EL2", "EL1IsAarch64", "SPSR_EL2")

\* Mutant of prepare_SPSR_EL2: the I mask is left out of the saved status.
prepare_SPSR_EL2_irq_unmasked ==
    /\ boot_pc = "SPSR_EL2"
    /\ SysRegWrite("SPSR_EL2", Spsr(TRUE, TRUE, FALSE, TRUE, "EL1h"), "ELR_EL2")

\* boot.rs:51-57
prepare_SPSR_EL2 ==
    /\ boot_pc = "SPSR_EL2"
    /\ SysRegWrite("SPSR_EL2", Spsr(TRUE, TRUE, TRUE, TRUE, "EL1h"), "ELR_EL2")

\* Mutant of prepare_ELR_EL2: the return address is _start_rust's own.
prepare_ELR_EL2_own_entry ==
    /\ boot_pc = "ELR_EL2"
    /\ SysRegWrite("ELR_EL2", "_start_rust", "SP_EL1")

\* boot.rs:60
prepare_ELR_EL2 ==
    /\ boot_pc = "ELR_EL2"
    /\ SysRegWrite("ELR_EL2", "kernel_init", "SP_EL1")

\* boot.rs:64
prepare_SP_EL1 ==
    /\ boot_pc = "SP_EL1"
    /\ SysRegWrite("SP_EL1", stack_arg, "eret")

\* Exception level the mode field M selects.
TargetEL(m) == IF m = "EL0t" THEN 0 ELSE IF m \in {"EL1t", "EL1h"} THEN 1 ELSE 2

\* An exception return is illegal when it would raise the level, or enter a
\* lower level in AArch64 state while HCR_EL2.RW makes the lower levels AArch32.
IllegalReturn(regs) ==
    \/ TargetEL(regs.SPSR_EL2.M) > cpu.el
    \/ TargetEL(regs.SPSR_EL2.M) < 2 /\ regs.HCR_EL2 # "EL1IsAarch64"

\* Where execution continues for a return address.
EntryOf(addr) ==
    IF addr = "kernel_init" THEN "kernel_init"
    ELSE IF addr = "_start_rust" THEN "CNTHCTL_EL2"
    ELSE "unknown"

\* The state an exception return from EL2 produces: PSTATE from SPSR_EL2, the
\* stack pointer the mode field selects (SP_EL1 for EL1h, the current SP_EL2
\* for EL2h, SP_EL0 otherwise, which nothing has set), execution at ELR_EL2.
ExceptionReturn(regs) ==
    LET m == regs.SPSR_EL2.M
    IN  Cpu(TargetEL(m), regs.SPSR_EL2,
            IF m = "EL1h" THEN regs.SP_EL1 ELSE IF m = "EL2h" THEN cpu.sp ELSE 0)

\* Mutant of eret: the exception return is issued before SP_EL1 is written.
eret_before_SP_EL1 ==
    /\ boot_pc = "SP_EL1"
    /\ boot_log' = Append(boot_log, "eret")
    /\ IF IllegalReturn(sysregs)
       THEN boot_pc' = "illegal" /\ UNCHANGED cpu
       ELSE boot_pc' = EntryOf(sysregs.ELR_EL2) /\ cpu' = ExceptionReturn(sysregs)
    /\ UNCHANGED <<sysregs, stack_arg, kernel_steps>>
    /\ UNCHANGED bootFrame

\* boot.rs:89  asm::eret()
eret ==
    /\ boot_pc = "eret"
    /\ boot_log' = Append(boot_log, "eret")
    /\ IF IllegalReturn(sysregs)
       THEN boot_pc' = "illegal" /\ UNCHANGED cpu
       ELSE boot_pc' = EntryOf(sysregs.ELR_EL2) /\ cpu' = ExceptionReturn(sysregs)
    /\ UNCHANGED <<sysregs, stack_arg, kernel_steps>>
    /\ UNCHANGED bootFrame

\* The kernel runs on from its entry point; it has no way back into
\* _start_rust, which never returns (boot.rs:79, -> !).
kernel_init_runs ==
    /\ boot_pc = "kernel_init"
    /\ kernel_steps < MaxKernelSteps
    /\ kernel_steps' = kernel_steps + 1
    /\ UNCHANGED <<boot_pc, sysregs, cpu, stack_arg, boot_log>>
    /\ UNCHANGED bootFrame

\* ------------------------------------------------------------------------
\* gicv2.rs: GICv2::init (DeviceDriver)
\* ------------------------------------------------------------------------

\* bsp::cpu::BOOT_CORE_ID, compared with the executing core at gicv2.rs:150
BOOT_CORE_ID == 0

\* The cores of the SoC that may run init.
Cores == 0 .. 3

\* What the calls of init leave in the controller: the Distributor brought
\* up, and per core the banked CPU interface's priority mask and enable.
GicHw(gicd_ready, accept_all, cpu_if) ==
    [gicd_ready |-> gicd_ready, accept_all |-> accept_all, cpu_if |-> cpu_if]

\* Mutant of GICv2_init_begin: the boot core test is missing, every core
\* brings up the Distributor.
GICv2_init_begin_any_core(core) ==
    /\ Running
    /\ ginit_pc \in {"idle", "done"}
    /\ ginit_core' = core
    /\ ginit_log' = <<>>
    /\ ginit_ret' = None
    /\ ginit_pc' = "boot_core_init"
    /\ UNCHANGED gic_hw
    /\ UNCHANGED ginitFrame

\* gicv2.rs:149-150  init is entered on a core; the boot core test
GICv2_init_begin(core) ==
    /\ Running
    /\ ginit_pc \in {"idle", "done"}
    /\ ginit_core' = core
    /\ ginit_log' = <<>>
    /\ ginit_ret' = None
    /\ ginit_pc' = IF BOOT_CORE_ID = core THEN "boot_core_init" ELSE "priority_accept_all"
    /\ UNCHANGED gic_hw
    /\ UNCHANGED ginitFrame

\* gicv2.rs:151  self.gicd.boot_core_init()
GICv2_init_boot_core_init ==
    /\ Running
    /\ ginit_pc = "boot_core_init"
    /\ ginit_log' = Append(ginit_log, "gicd.boot_core_init")
    /\ gic_hw' = [gic_hw EXCEPT !.gicd_ready = TRUE]
    /\ ginit_pc' = "priority_accept_all"
    /\ UNCHANGED <<ginit_core, ginit_ret>>
    /\ UNCHANGED ginitFrame

\* gicv2.rs:154  self.gicc.priority_accept_all()
GICv2_init_priority_accept_all ==
    /\ Running
    /\ ginit_pc = "priority_accept_all"
    /\ ginit_log' = Append(ginit_log, "gicc.priority_accept_all")
    /\ gic_hw' = [gic_hw EXCEPT !.accept_all = @ \cup {ginit_core}]
    /\ ginit_pc' = "enable"
    /\ UNCHANGED <<ginit_core, ginit_ret>>
    /\ UNCHANGED ginitFrame

\* gicv2.rs:155-157  self.gicc.enable(); Ok(())
GICv2_init_enable ==
    /\ Running
    /\ ginit_pc = "enable"
    /\ ginit_log' = Append(ginit_log, "gicc.enable")
    /\ gic_hw' = [gic_hw EXCEPT !.cpu_if = @ \cup {ginit_core}]
    /\ ginit_ret' = Some(Ok)
    /\ ginit_pc' = "done"
    /\ UNCHANGED ginit_core
    /\ UNCHANGED ginitFrame

\* ------------------------------------------------------------------------
\* bsp/raspberrypi/driver.rs: the board registers its drivers, the kernel
\* brings them up with DriverManager::init_drivers
\* ------------------------------------------------------------------------

\* bsp/raspberrypi/driver.rs:42-43, 51
uart_descriptor == DeviceDriverDescriptor("BCM PL011 UART", Some("post_init_uart"))
gpio_descriptor == DeviceDriverDescriptor("BCM GPIO", Some("post_init_gpio"))

BoardDrivers == {compatible(uart_descriptor), compatible(gpio_descriptor)}

\* How often the model lets the kernel run init_drivers over the board's
\* drivers.
MaxBringUps == 2

\* The kernel thread is neither inside bsp::driver::init nor inside a
\* console call.
BspIdle == bsp_pc \in {"idle", "returned"} /\ lock_stack = <<>>

\* Mutant of bsp_init_begin: init does not look at INIT_DONE.
bsp_init_begin_ignores_INIT_DONE ==
    /\ Running
    /\ DrvIdle
    /\ BspIdle
    /\ bsp_ret' = None /\ bsp_pc' = "driver_uart"
    /\ UNCHANGED <<INIT_DONE, cur_console, pins_mapped, hw_inited, panic>>
    /\ UNCHANGED <<drvVars, gicVars>>
    /\ UNCHANGED bspFrame

\* bsp/raspberrypi/driver.rs:66-71  init is entered; the INIT_DONE test
bsp_init_begin ==
    /\ Running
    /\ DrvIdle
    /\ BspIdle
    /\ IF INIT_DONE
       THEN bsp_ret' = Some(Err("Init already done")) /\ bsp_pc' = "returned"
       ELSE bsp_ret' = None /\ bsp_pc' = "driver_uart"
    /\ UNCHANGED <<INIT_DONE, cur_console, pins_mapped, hw_inited, panic>>
    /\ UNCHANGED <<drvVars, gicVars>>
    /\ UNCHANGED bspFrame

\* bsp/raspberrypi/driver.rs:41-47, 74  driver_uart()?
driver_uart ==
    /\ bsp_pc = "driver_uart"
    /\ register_driver(uart_descriptor)
    /\ bsp_pc' = "driver_gpio"
    /\ UNCHANGED <<INIT_DONE, bsp_ret, cur_console, pins_mapped, hw_inited>>
    /\ UNCHANGED bspFrame

\* bsp/raspberrypi/driver.rs:50-55, 75  driver_gpio()?
driver_gpio ==
    /\ bsp_pc = "driver_gpio"
    /\ register_driver(gpio_descriptor)
    /\ bsp_pc' = "store"
    /\ UNCHANGED <<INIT_DONE, bsp_ret, cur_console, pins_mapped, hw_inited>>
    /\ UNCHANGED bspFrame

\* bsp/raspberrypi/driver.rs:78-79  INIT_DONE.store(true); Ok(())
bsp_init_done ==
    /\ Running
    /\ bsp_pc = "store"
    /\ INIT_DONE' = TRUE
    /\ bsp_ret' = Some(Ok)
    /\ bsp_pc' = "returned"
    /\ UNCHANGED <<cur_console, pins_mapped, hw_inited, panic>>
    /\ UNCHANGED <<drvVars, gicVars>>
    /\ UNCHANGED bspFrame

\* The kernel calls init_drivers between two calls of bsp::driver::init.
bsp_init_drivers_begin ==
    /\ BspIdle
    /\ \A d \in BoardDrivers : hw_inited[d] < MaxBringUps
    /\ init_drivers_begin
    /\ UNCHANGED bspVars
    /\ UNCHANGED bspFrame

\* driver.rs:153  descriptor.device_driver.init() of a board driver: both
\* return Ok (bcm2xxx_pl011_uart.rs:363-367; driver.rs:44-46, the default).
bsp_driver_init ==
    /\ Running
    /\ pc = "init"
    /\ driver_init_returns(Ok)
    /\ hw_inited' = [hw_inited EXCEPT ![compatible(Unwrap(descriptors[cursor]))] = @ + 1]
    /\ UNCHANGED <<next_index, descriptors, printed, registered>>
    /\ UNCHANGED <<bsp_pc, INIT_DONE, bsp_ret, cur_console, pins_mapped>>
    /\ UNCHANGED gicVars
    /\ UNCHANGED bspFrame

\* driver.rs:166  callback() of a board driver: post_init_uart registers the
\* UART as console, post_init_gpio maps the UART's pins; both return Ok
\* (bsp/raspberrypi/driver.rs:26-38).
bsp_post_init ==
    /\ Running
    /\ pc = "post"
    /\ post_init_returns(Ok)
    /\ LET callback == Unwrap(Unwrap(descriptors[cursor]).post_init_callback)
       IN  /\ cur_console' = IF callback = "post_init_uart" THEN Some("BCM PL011 UART")
                             ELSE cur_console
           /\ pins_mapped' = (pins_mapped \/ callback = "post_init_gpio")
    /\ UNCHANGED <<next_index, descriptors, printed, registered>>
    /\ UNCHANGED <<bsp_pc, INIT_DONE, bsp_ret, hw_inited>>
    /\ UNCHANGED gicVars
    /\ UNCHANGED bspFrame

\* The kernel uses the console (bsp/raspberrypi/console.rs:16-18, the UART):
\* a character is written or the statistics are read, under the UART's lock.
bsp_console_call ==
    /\ DrvIdle
    /\ BspIdle
    /\ \E f \in {c \in Closures : c.kind \in {"write_char", "chars_written"}} : lock_enter(f)

\* The kernel prints the registered drivers.
bsp_enumerate ==
    /\ BspIdle
    /\ enumerate
    /\ UNCHANGED bspVars
    /\ UNCHANGED bspFrame

\* ------------------------------------------------------------------------
\* Specifications
\* ------------------------------------------------------------------------

\* bcm2xxx_pl011_uart.rs:234-254  the registers init writes: CR (UARTEN, TXE,
\* RXE), IBRD, FBRD, LCR_H, the divisors the last LCR_H write latched, and
\* whether an interrupt is pending (cleared through ICR).
UartRegs(uarten, txe, rxe, ibrd, fbrd, lcr_h, latched, pending) ==
    [UARTEN |-> uarten, TXE |-> txe, RXE |-> rxe, IBRD |-> ibrd, FBRD |-> fbrd,
     LCR_H |-> lcr_h, latched |-> latched, pending |-> pending]

Init ==
    /\ DriverManagerInner_new
    /\ pc = "idle"
    /\ cursor = 0
    /\ calls = <<>>
    /\ printed = <<>>
    /\ registered = <<>>
    /\ panic = None
    /\ GICv2_new
    /\ enabled = {}
    /\ reg_arg = None
    /\ reg_seen = {}
    /\ last_result = Ok
    /\ handler_printed = <<>>
    /\ irq_pc = "idle"
    /\ irq_number = 0
    /\ irq_desc = None
    /\ irq_log = <<>>
    /\ resolved = <<>>
    /\ phase = "Init"
    /\ irq_masked = TRUE
    /\ wr_pc = "idle"
    /\ wr_arg = None
    /\ cell = [g \in Guards |-> NullLock_new(g)]
    /\ lock_stack = <<>>
    /\ lock_ret = None
    /\ written = [g \in Guards |-> NullLock_new(g)]
    /\ boot_pc = "reset"
    /\ sysregs = SysRegs({}, 0, "AllLowerELsAreAarch32", Spsr(FALSE, FALSE, FALSE, FALSE, "EL0t"),
                         "unknown", 0)
    /\ cpu = Cpu(2, Spsr(TRUE, TRUE, TRUE, TRUE, "EL2h"), 0)
    /\ stack_arg = 0
    /\ boot_log = <<>>
    /\ kernel_steps = 0
    /\ ginit_pc = "idle"
    /\ ginit_core = BOOT_CORE_ID
    /\ ginit_log = <<>>
    /\ ginit_ret = None
    /\ gic_hw = GicHw(FALSE, {}, {})
    /\ bsp_pc = "idle"
    /\ INIT_DONE = FALSE
    /\ bsp_ret = None
    /\ cur_console = None
    /\ pins_mapped = FALSE
    /\ hw_inited = [d \in BoardDrivers |-> 0]
    /\ reg_calls = <<>>
    /\ time_pc = "reset"
    /\ frequency = 1
    /\ CNTPCT_EL0 = 0
    /\ spin_arg = None
    /\ spin_conv = None
    /\ spin_target = 0
    /\ spin_elapsed = 0
    /\ spin_warned = None
    /\ uart_pc = "reset"
    /\ uart_regs = UartRegs(FALSE, FALSE, FALSE, 0, 0, "reset", <<0, 0>>, FALSE)
    /\ tx_queued = 0
    /\ uart_log = <<>>

NextDrv ==
    \/ (\E d \in Descriptors : register_driver(d)) /\ UNCHANGED drvFrame
    \/ init_drivers_begin /\ UNCHANGED drvFrame
    \/ init_drivers_init /\ UNCHANGED drvFrame
    \/ init_drivers_post /\ UNCHANGED drvFrame
    \/ enumerate /\ UNCHANGED drvFrame

SpecDrv == Init /\ [][NextDrv]_vars

\* History kept beside gicv2.rs:199-210: for every IRQ number the descriptor
\* its first completed dispatch had found in the table.
record_resolved ==
    resolved' = IF irq_number \in DOMAIN resolved THEN resolved
                ELSE TableStore(resolved, irq_number, Unwrap(irq_desc))

NextGic ==
    \/ (\E d \in HandlerDescriptors : register_handler(d)) /\ UNCHANGED resolved /\ UNCHANGED gicFrame
    \/ (\E n \in EnableInputs : enable(n)) /\ UNCHANGED resolved /\ UNCHANGED gicFrame
    \/ handle_pending_irqs_begin /\ UNCHANGED resolved /\ UNCHANGED gicFrame
    \/ handle_pending_irqs_lookup /\ UNCHANGED resolved /\ UNCHANGED gicFrame
    \/ handle_pending_irqs_handler /\ UNCHANGED resolved /\ UNCHANGED gicFrame
    \/ handle_pending_irqs_complete /\ record_resolved /\ UNCHANGED gicFrame
    \/ print_handler /\ UNCHANGED resolved /\ UNCHANGED gicFrame

SpecGic == Init /\ [][NextGic]_vars

\* ------------------------------------------------------------------------
\* The kernel's use of the handler table: normal context registers handlers
\* through handler_table.write(), interrupt context dispatches through
\* handler_table.read().  One core: while handle_pending_irqs runs, normal
\* context is suspended (IrqIdle guards every normal-context step).
\* ------------------------------------------------------------------------

\* The handlers the kernel's drivers register (gicv2.rs:164): two on the same
\* IRQ number and one on another.
KernelHandlers == {d \in HandlerDescriptors : d.number \in EnableInputs}

\* The write primitive of the Init-Phase Guarded State does not look at the
\* phase: the closure runs in either phase.
InitStateLock_write_permitted == phase \in {"Init", "Frozen"}

\* gicv2.rs:168  self.handler_table.write(|table| ...): the closure is entered
kernel_register_begin(d) ==
    /\ Running
    /\ IrqIdle
    /\ wr_pc = "idle"
    /\ InitStateLock_write_permitted
    /\ wr_pc' = "write"
    /\ wr_arg' = Some(d)
    /\ UNCHANGED <<phase, irq_masked, resolved, panic, kernFrame>>
    /\ UNCHANGED <<drvVars, gicVars>>

\* gicv2.rs:169-178  the closure's body, then write() returns
kernel_register_body ==
    /\ wr_pc = "write"
    /\ register_handler(Unwrap(wr_arg))
    /\ wr_pc' = "idle"
    /\ wr_arg' = None
    /\ UNCHANGED <<phase, irq_masked, resolved, kernFrame>>

\* Kernel bring-up completes: the state manager leaves the Init phase.
freeze ==
    /\ Running
    /\ IrqIdle
    /\ wr_pc = "idle"
    /\ phase = "Init"
    /\ phase' = "Frozen"
    /\ UNCHANGED <<irq_masked, wr_pc, wr_arg, resolved, panic, kernFrame>>
    /\ UNCHANGED <<drvVars, gicVars>>

\* IRQs are unmasked on the core once the table is frozen; dispatch begins.
local_irq_unmask ==
    /\ Running
    /\ IrqIdle
    /\ wr_pc = "idle"
    /\ phase = "Frozen"
    /\ irq_masked
    /\ irq_masked' = FALSE
    /\ UNCHANGED <<phase, wr_pc, wr_arg, resolved, panic, kernFrame>>
    /\ UNCHANGED <<drvVars, gicVars>>

\* An IRQ is taken when the core's mask is clear; the exception vector calls
\* handle_pending_irqs (gicv2.rs:185).
irq_entry ==
    /\ ~irq_masked
    /\ handle_pending_irqs_begin

NextKernel ==
    \/ \E d \in KernelHandlers : kernel_register_begin(d)
    \/ kernel_register_body
    \/ freeze
    \/ local_irq_unmask
    \/ irq_entry /\ UNCHANGED resolved /\ UNCHANGED gicFrame
    \/ handle_pending_irqs_lookup /\ UNCHANGED resolved /\ UNCHANGED gicFrame
    \/ handle_pending_irqs_handler /\ UNCHANGED resolved /\ UNCHANGED gicFrame
    \/ handle_pending_irqs_complete /\ record_resolved /\ UNCHANGED gicFrame

SpecKernel == Init /\ [][NextKernel]_vars

NextLock ==
    \/ \E f \in Closures : lock_enter(f)
    \/ closure_body
    \/ lock_return

SpecLock == Init /\ [][NextLock]_vars

NextBoot ==
    \/ start_rust_entered
    \/ prepare_CNTHCTL_EL2
    \/ prepare_CNTVOFF_EL2
    \/ prepare_HCR_EL2
    \/ prepare_SPSR_EL2
    \/ prepare_ELR_EL2
    \/ prepare_SP_EL1
    \/ eret
    \/ kernel_init_runs

SpecBoot == Init /\ [][NextBoot]_vars

NextGicInit ==
    \/ \E core \in Cores : GICv2_init_begin(core)
    \/ GICv2_init_boot_core_init
    \/ GICv2_init_priority_accept_all
    \/ GICv2_init_enable

SpecGicInit == Init /\ [][NextGicInit]_vars

NextBsp ==
    \/ bsp_init_begin
    \/ driver_uart
    \/ driver_gpio
    \/ bsp_init_done
    \/ bsp_init_drivers_begin
    \/ bsp_driver_init
    \/ bsp_post_init
    \/ bsp_enumerate
    \/ bsp_console_call
    \/ closure_body
    \/ lock_return

SpecBsp == Init /\ [][NextBsp]_vars

\* ------------------------------------------------------------------------
\* A sequence of register_handler calls on one GICv2, with the result of
\* every call kept.
\* ------------------------------------------------------------------------

\* The number of register_handler calls of one sequence.
MaxRegCalls == 3

\* gicv2.rs:164-179  one call of the sequence, for any descriptor
register_handler_call ==
    /\ Len(reg_calls) < MaxRegCalls
    /\ \E d \in HandlerDescriptors :
          /\ register_handler(d)
          /\ reg_calls' = Append(reg_calls, [descriptor |-> d, ok |-> last_result'.ok])
    /\ UNCHANGED regFrame

NextReg ==
    \/ register_handler_call

SpecReg == Init /\ [][NextReg]_vars

\* ------------------------------------------------------------------------
\* The generic timer (_arch/aarch64/time.rs): Duration <-> counter value
\* and spin_for
\* ------------------------------------------------------------------------

\* The width in bits of the counter and of the u64 arithmetic on it.
CounterBits == 4

\* time.rs:29
NANOSEC_PER_SEC == 1000000000

\* time.rs:56  GenericTimerCounterValue::MAX (u64::MAX)
GenericTimerCounterValue_MAX == 2^CounterBits - 1

\* time.rs:38-41  the values boot.s may have stored from CNTFRQ_EL0 (a
\* NonZeroU32), in counter ticks per second.
Frequencies == {1, 2, 3}

\* core::time::Duration: whole seconds and the nanoseconds below one second
Duration(secs, nanos) == [secs |-> secs, nanos |-> nanos]

Duration_ZERO == Duration(0, 0)

\* The ordering derived for Duration: seconds first, then nanoseconds.
Duration_lt(a, b) == a.secs < b.secs \/ (a.secs = b.secs /\ a.nanos < b.nanos)

\* The durations passed to spin_for: around one tick, around the duration of
\* the largest counter value for every frequency, and in between.
Durations ==
    {Duration(s, n) :
        s \in {0, 1, GenericTimerCounterValue_MAX \div 3, GenericTimerCounterValue_MAX \div 2,
               GenericTimerCounterValue_MAX, GenericTimerCounterValue_MAX + 1},
        n \in {0, 333333333, 333333334, 500000000}}

\* time.rs:59-67  impl Add: self.0.wrapping_add(other.0)
GenericTimerCounterValue_add(self, other) == (self + other) % (2^CounterBits)

\* time.rs:71-99  impl From<GenericTimerCounterValue> for Duration
Duration_from(counter_value, freq) ==
    IF counter_value = 0 THEN Duration_ZERO
    ELSE LET secs == counter_value \div freq
             sub_second_counter_value == counter_value % freq
             nanos == (sub_second_counter_value * NANOSEC_PER_SEC) \div freq
         IN  Duration(secs, nanos)

\* time.rs:101-103
max_duration(freq) == Duration_from(GenericTimerCounterValue_MAX, freq)

\* time.rs:149-151
resolution(freq) == Duration_from(1, freq)

\* Result<GenericTimerCounterValue, &'static str>
TryOk(val) == [ok |-> TRUE, val |-> val, err |-> ""]
TryErr(msg) == [ok |-> FALSE, val |-> 0, err |-> msg]

\* time.rs:121-127  duration.as_nanos() * frequency / NANOSEC_PER_SEC in
\* u128.  as_nanos() is secs * NANOSEC_PER_SEC + nanos, so the quotient is
\* secs * frequency + (nanos * frequency) / NANOSEC_PER_SEC, which is how it
\* is computed here.
counter_value_of(duration, freq) ==
    duration.secs * freq + (duration.nanos * freq) \div NANOSEC_PER_SEC

\* Mutant of GenericTimerCounterValue_try_from: the duration of the largest
\* counter value is rejected as well.
GenericTimerCounterValue_try_from_rejects_max(duration, freq) ==
    IF Duration_lt(duration, resolution(freq)) THEN TryOk(0)
    ELSE IF ~Duration_lt(duration, max_duration(freq))
         THEN TryErr("Conversion error. Duration too big")
    ELSE TryOk(counter_value_of(duration, freq) % (2^CounterBits))

\* time.rs:107-132  impl TryFrom<Duration> for GenericTimerCounterValue;
\* `as u64` keeps the low bits.
GenericTimerCounterValue_try_from(duration, freq) ==
    IF Duration_lt(duration, resolution(freq)) THEN TryOk(0)
    ELSE IF Duration_lt(max_duration(freq), duration)
         THEN TryErr("Conversion error. Duration too big")
    ELSE TryOk(counter_value_of(duration, freq) % (2^CounterBits))

\* time.rs:38-41  boot.s stores CNTFRQ_EL0 into ARCH_TIMER_COUNTER_FREQUENCY
\* before any Rust code runs.
boot_stores_frequency ==
    /\ time_pc = "reset"
    /\ \E f \in Frequencies : frequency' = f
    /\ time_pc' = "idle"
    /\ UNCHANGED <<CNTPCT_EL0, spin_arg, spin_conv, spin_target, spin_elapsed, spin_warned>>
    /\ UNCHANGED timeFrame

\* time.rs:139, 174  CNTPCT_EL0 is a free-running counter of CounterBits
\* bits: it advances on its own and wraps to 0.  spin_elapsed counts the
\* ticks that pass while spin_for is inside its loop.
counter_tick ==
    /\ time_pc # "reset"
    /\ CNTPCT_EL0' = (CNTPCT_EL0 + 1) % (2^CounterBits)
    /\ spin_elapsed' = IF time_pc = "spin" /\ spin_elapsed < 2^CounterBits
                       THEN spin_elapsed + 1 ELSE spin_elapsed
    /\ UNCHANGED <<time_pc, frequency, spin_arg, spin_conv, spin_target, spin_warned>>
    /\ UNCHANGED timeFrame

\* time.rs:160-170  spin_for up to its loop: the counter is read, the
\* duration converted; a failed conversion warns and returns, otherwise the
\* target is the sum of the two.
spin_for_begin(duration) ==
    /\ time_pc \in {"idle", "returned"}
    /\ LET curr_counter_value == CNTPCT_EL0
           conv == GenericTimerCounterValue_try_from(duration, frequency)
       IN  /\ spin_arg' = Some(duration)
           /\ spin_conv' = Some(conv)
           /\ spin_elapsed' = 0
           /\ IF ~conv.ok
              THEN /\ spin_warned' = Some(conv.err)
                   /\ time_pc' = "returned"
                   /\ UNCHANGED spin_target
              ELSE /\ spin_warned' = None
                   /\ spin_target' = GenericTimerCounterValue_add(curr_counter_value, conv.val)
                   /\ time_pc' = "spin"
    /\ UNCHANGED <<frequency, CNTPCT_EL0>>
    /\ UNCHANGED timeFrame

\* time.rs:174  one evaluation of the loop condition
\* while GenericTimerCounterValue(CNTPCT_EL0.get()) < counter_value_target {}
\* When the loop is left spin_for returns and its local is gone.
spin_for_loop ==
    /\ time_pc = "spin"
    /\ IF CNTPCT_EL0 < spin_target
       THEN UNCHANGED <<time_pc, spin_target>>
       ELSE time_pc' = "returned" /\ spin_target' = 0
    /\ UNCHANGED <<frequency, CNTPCT_EL0, spin_arg, spin_conv, spin_elapsed, spin_warned>>
    /\ UNCHANGED timeFrame

NextTime ==
    \/ boot_stores_frequency
    \/ counter_tick
    \/ \E d \in Durations : spin_for_begin(d)
    \/ spin_for_loop

SpecTime == Init /\ [][NextTime]_vars

\* ------------------------------------------------------------------------
\* PL011UartInner::init (bcm2xxx_pl011_uart.rs) and the UART it programs
\* ------------------------------------------------------------------------

\* The characters a UART may have queued for transmission.
MaxTxQueued == 2

\* The divisors the UART may hold before init: the reset values, or the
\* ones of another baud rate (115200: 26 + 3/64).
FoundDivisors == {<<0, 0>>, <<26, 3>>}

\* bcm2xxx_pl011_uart.rs:223-230  what init may find: the firmware or an
\* earlier user left the UART enabled or not, at some baud rate, with
\* characters still queued.
uart_found ==
    /\ uart_pc = "reset"
    /\ \E en \in BOOLEAN, q \in 0 .. MaxTxQueued, p \in BOOLEAN, div \in FoundDivisors :
          /\ uart_regs' = UartRegs(en, en, en, div[1], div[2], "reset", div, p)
          /\ tx_queued' = q
    /\ uart_pc' = "idle"
    /\ UNCHANGED uart_log
    /\ UNCHANGED uartFrame

\* bcm2xxx_pl011_uart.rs:257-268  write_char puts a character into the TX
\* FIFO (between two calls of init).
PL011UartInner_write_char ==
    /\ uart_pc = "idle"
    /\ tx_queued < MaxTxQueued
    /\ tx_queued' = tx_queued + 1
    /\ UNCHANGED <<uart_pc, uart_regs, uart_log>>
    /\ UNCHANGED uartFrame

\* The UART sends a queued character (FR.BUSY is set while any is queued)
\* and raises its transmit interrupt.
uart_transmits ==
    /\ tx_queued > 0
    /\ tx_queued' = tx_queued - 1
    /\ uart_regs' = [uart_regs EXCEPT !.pending = TRUE]
    /\ UNCHANGED <<uart_pc, uart_log>>
    /\ UNCHANGED uartFrame

\* bcm2xxx_pl011_uart.rs:222  init is called
PL011UartInner_init_begin ==
    /\ uart_pc = "idle"
    /\ uart_pc' = "flush"
    /\ uart_log' = <<>>
    /\ UNCHANGED <<uart_regs, tx_queued>>
    /\ UNCHANGED uartFrame

\* Mutant of PL011UartInner_flush: flush returns without looking at FR.BUSY.
PL011UartInner_flush_does_not_wait ==
    /\ uart_pc = "flush"
    /\ uart_pc' = "CR_disable"
    /\ uart_log' = Append(uart_log, "FR_idle")
    /\ UNCHANGED <<uart_regs, tx_queued>>
    /\ UNCHANGED uartFrame

\* bcm2xxx_pl011_uart.rs:231, 271-277  self.flush(): one evaluation of
\* while FR.matches_all(FR::BUSY::SET).  The first busy reading is logged.
PL011UartInner_flush ==
    /\ uart_pc = "flush"
    /\ IF tx_queued > 0
       THEN /\ uart_log' = IF uart_log = <<>> THEN <<"FR_busy">> ELSE uart_log
            /\ UNCHANGED uart_pc
       ELSE /\ uart_pc' = "CR_disable"
            /\ uart_log' = Append(uart_log, "FR_idle")
    /\ UNCHANGED <<uart_regs, tx_queued>>
    /\ UNCHANGED uartFrame

\* bcm2xxx_pl011_uart.rs:234  self.registers.CR.set(0)
PL011UartInner_init_CR_disable ==
    /\ uart_pc = "CR_disable"
    /\ uart_regs' = [uart_regs EXCEPT !.UARTEN = FALSE, !.TXE = FALSE, !.RXE = FALSE]
    /\ uart_log' = Append(uart_log, "CR_disable")
    /\ uart_pc' = "ICR_clear"
    /\ UNCHANGED tx_queued
    /\ UNCHANGED uartFrame

\* bcm2xxx_pl011_uart.rs:237  ICR.write(ICR::ALL::CLEAR)
PL011UartInner_init_ICR_clear ==
    /\ uart_pc = "ICR_clear"
    /\ uart_regs' = [uart_regs EXCEPT !.pending = FALSE]
    /\ uart_log' = Append(uart_log, "ICR_clear")
    /\ uart_pc' = "IBRD"
    /\ UNCHANGED tx_queued
    /\ UNCHANGED uartFrame

\* bcm2xxx_pl011_uart.rs:245  IBRD.write(IBRD::BAUD_DIVINT.val(3))
PL011UartInner_init_IBRD ==
    /\ uart_pc = "IBRD"
    /\ uart_regs' = [uart_regs EXCEPT !.IBRD = 3]
    /\ uart_log' = Append(uart_log, "IBRD")
    /\ uart_pc' = "FBRD"
    /\ UNCHANGED tx_queued
    /\ UNCHANGED uartFrame

\* bcm2xxx_pl011_uart.rs:246  FBRD.write(FBRD::BAUD_DIVFRAC.val(16))
PL011UartInner_init_FBRD ==
    /\ uart_pc = "FBRD"
    /\ uart_regs' = [uart_regs EXCEPT !.FBRD = 16]
    /\ uart_log' = Append(uart_log, "FBRD")
    /\ uart_pc' = "LCR_H"
    /\ UNCHANGED tx_queued
    /\ UNCHANGED uartFrame

\* bcm2xxx_pl011_uart.rs:239-249  LCR_H.write(WLEN::EightBit + FEN::
\* FifosEnabled); the write latches the divisors IBRD and FBRD hold.
PL011UartInner_init_LCR_H ==
    /\ uart_pc = "LCR_H"
    /\ uart_regs' = [uart_regs EXCEPT !.LCR_H = "EightBit+FifosEnabled",
                                      !.latched = <<uart_regs.IBRD, uart_regs.FBRD>>]
    /\ uart_log' = Append(uart_log, "LCR_H")
    /\ uart_pc' = "CR_enable"
    /\ UNCHANGED tx_queued
    /\ UNCHANGED uartFrame

\* bcm2xxx_pl011_uart.rs:252-254  CR.write(UARTEN::Enabled + TXE::Enabled +
\* RXE::Enabled); init returns.
PL011UartInner_init_CR_enable ==
    /\ uart_pc = "CR_enable"
    /\ uart_regs' = [uart_regs EXCEPT !.UARTEN = TRUE, !.TXE = TRUE, !.RXE = TRUE]
    /\ uart_log' = Append(uart_log, "CR_enable")
    /\ uart_pc' = "idle"
    /\ UNCHANGED tx_queued
    /\ UNCHANGED uartFrame

NextUart ==
    \/ uart_found
    \/ PL011UartInner_write_char
    \/ uart_transmits
    \/ PL011UartInner_init_begin
    \/ PL011UartInner_flush
    \/ PL011UartInner_init_CR_disable
    \/ PL011UartInner_init_ICR_clear
    \/ PL011UartInner_init_IBRD
    \/ PL011UartInner_init_FBRD
    \/ PL011UartInner_init_LCR_H
    \/ PL011UartInner_init_CR_enable

SpecUart == Init /\ [][NextUart]_vars

\* ------------------------------------------------------------------------
\* Properties of the DriverManager (checked under SpecDrv)
\* ------------------------------------------------------------------------

IsPrefix(s, t) == Len(s) <= Len(t) /\ \A k \in 1 .. Len(s) : s[k] = t[k]

\* What was called, without what it returned.
CallShapes(cs) == [k \in 1 .. Len(cs) |-> <<cs[k].op, cs[k].slot, cs[k].who>>]

\* The calls one init_drivers has to make for the descriptors regs, which were
\* registered in this order into the slots first, first + 1, ...
RECURSIVE CallsFor(_, _)
CallsFor(regs, first) ==
    IF regs = <<>> THEN <<>>
    ELSE LET d == Head(regs)
         IN  <<  <<"init", first, compatible(d)>>  >>
             \o (IF IsSome(d.post_init_callback)
                 THEN <<  <<"post", first, compatible(d)>>  >>
                 ELSE <<>>)
             \o CallsFor(Tail(regs), first + 1)

\* C1: one init_drivers call visits the registered descriptors in
\* registration order, calling each driver's init and then (if present) its
\* post-init callback before it touches the next descriptor: whenever it is
\* about to call the init (pc = "init") or the callback (pc = "post") of the
\* descriptor in slot `cursor`, the calls made so far are exactly the complete
\* init/post-init pairs of the descriptors registered before it; when it
\* returns (pc = "done") every registered driver's init has been called
\* exactly once; and no call ever names a slot that was not registered.
C1_InitAllVisitsInRegistrationOrder ==
    /\ IsPrefix(CallShapes(calls), CallsFor(registered, 0))
    /\ \A k \in 1 .. Len(calls) : calls[k].slot < next_index
    /\ pc = "init" =>
          CallShapes(calls) = CallsFor(SubSeq(registered, 1, cursor), 0)
    /\ pc = "post" =>
          CallShapes(calls) = CallsFor(SubSeq(registered, 1, cursor), 0)
                              \o << <<"init", cursor, compatible(registered[cursor + 1])>> >>
    /\ pc = "done" =>
          /\ CallShapes(calls) = CallsFor(registered, 0)
          /\ \A s \in 0 .. (next_index - 1) :
                Cardinality({k \in 1 .. Len(calls) :
                                calls[k].op = "init" /\ calls[k].slot = s}) = 1

\* C1 witness: an init_drivers call has returned after visiting three or more
\* descriptors, some with and some without a post-init callback.
C1_Witness ==
    /\ pc = "done"
    /\ next_index >= 3
    /\ \E s \in 1 .. next_index : IsSome(registered[s].post_init_callback)
    /\ \E s \in 1 .. next_index : ~IsSome(registered[s].post_init_callback)

PanicMessage(op) ==
    IF op = "init" THEN "Error initializing driver"
    ELSE "Error during driver post-init callback"

InitDriversPanicked ==
    /\ IsSome(panic)
    /\ Unwrap(panic).msg \in {PanicMessage("init"), PanicMessage("post")}

\* C2: if a driver's init or post-init callback returns an error, the kernel
\* panics with that driver's compatible name and the reported error; the
\* failing call is the last call init_drivers ever makes (so no later driver
\* is touched, and a driver whose init failed does not get its post-init),
\* and once panicked the list of calls never grows.
C2_FailureHaltsInitAll ==
    /\ [](/\ \A k \in 1 .. Len(calls) :
                IsErr(calls[k].result) =>
                    /\ k = Len(calls)
                    /\ panic = Some(PanicInfo(PanicMessage(calls[k].op),
                                              compatible(registered[calls[k].slot + 1]),
                                              calls[k].result.err))
          /\ InitDriversPanicked =>
                /\ calls # <<>>
                /\ IsErr(calls[Len(calls)].result)
                /\ pc = "panic")
    /\ [][IsSome(panic) => calls' = calls]_vars

\* C2 witness: the init of the second registered driver failed after the first
\* driver was brought up, with a third driver registered behind it.
C2_Witness ==
    /\ InitDriversPanicked
    /\ next_index >= 3
    /\ calls[Len(calls)].slot = 1
    /\ calls[Len(calls)].op = "init"
    /\ IsSome(registered[2].post_init_callback)

\* C3: after any sequence of register_driver calls within the capacity,
\* enumerate prints the compatible names of the registered drivers in
\* registration order, one line per registration, numbered from 1.
C3_EnumerateInRegistrationOrder ==
    pc = "enumerated" =>
        /\ Len(registered) <= NUM_DRIVERS
        /\ printed = [k \in 1 .. Len(registered) |->
                        [i |-> k, name |-> compatible(registered[k])]]

\* C3 witness: enumerate ran on a full registry holding different drivers.
C3_Witness ==
    /\ pc = "enumerated"
    /\ Len(printed) = NUM_DRIVERS
    /\ printed[1].name # printed[2].name
    /\ printed[NUM_DRIVERS].name = "A"

RegisterStep == \E d \in Descriptors : register_driver(d)

RegistryUnchanged == descriptors' = descriptors /\ next_index' = next_index

AlreadyRegistered == Err("IRQ handler already registered")

\* C5: for every IRQ number, the first register_handler call for it succeeds
\* and stores the descriptor in the slot of that number; every later call for
\* the same number returns "IRQ handler already registered" and leaves the
\* whole table as it was.
C5_RegisterHandlerOncePerNumber ==
    /\ [](/\ DOMAIN handler_table = reg_seen
          /\ DOMAIN handler_table \subseteq IRQNumber
          /\ \A n \in DOMAIN handler_table : handler_table[n].number = n
          /\ last_result \in {Ok, AlreadyRegistered}
          /\ (IsSome(reg_arg) /\ last_result = Ok) =>
                TableSlot(handler_table, Unwrap(reg_arg).number) = reg_arg)
    /\ [][\A d \in HandlerDescriptors :
            register_handler(d) =>
                IF d.number \notin reg_seen
                THEN /\ last_result' = Ok
                     /\ handler_table' = TableStore(handler_table, d.number, d)
                ELSE /\ last_result' = AlreadyRegistered
                     /\ handler_table' = handler_table]_vars

\* C5 witness: "timer_b" was refused for IRQ 33, which still holds "timer".
C5_Witness ==
    /\ last_result = AlreadyRegistered
    /\ reg_arg = Some(IRQHandlerDescriptor(33, "timer_b", "h_timer_b"))
    /\ TableSlot(handler_table, 33) = Some(IRQHandlerDescriptor(33, "timer", "h_timer"))

\* C6: under any sequence of register_handler, enable, handle_pending_irqs and
\* print_handler calls a slot of the handler table changes at most once, from
\* empty to filled: a filled slot is never cleared or given another descriptor.
C6_FilledSlotNeverChanges ==
    [][\A n \in IRQNumber :
          IsSome(TableSlot(handler_table, n)) =>
              TableSlot(handler_table', n) = TableSlot(handler_table, n)]_vars

\* C6 witness: all four numbers are registered, a further registration was
\* refused, and enable, handle_pending_irqs and print_handler have all run.
C6_Witness ==
    /\ DOMAIN handler_table = {0, 33, 153, 300}
    /\ last_result = AlreadyRegistered
    /\ 33 \in enabled
    /\ irq_pc = "returned"
    /\ handler_printed # <<>>

HandlerOf(n) == Unwrap(TableSlot(handler_table, n)).handler

InRange == irq_number <= MAX_IRQ_NUMBER

\* C7: when the acknowledge register reports an in-range number n with a
\* registered handler, handle_pending_irqs invokes the handler stored in slot
\* n and no other, and signals completion for n only after that handler has
\* returned Ok.
C7_DispatchInvokesHandlerThenCompletes ==
    /\ irq_pc \in {"handler", "complete"} =>
          /\ irq_desc = TableSlot(handler_table, irq_number)
          /\ SubSeq(irq_log, 1, 3) = << IrqEvent("ack", irq_number, ""),
                                       IrqEvent("read", irq_number, ""),
                                       IrqEvent("handle", irq_number, HandlerOf(irq_number)) >>
    /\ irq_pc = "handler" => Len(irq_log) = 3
    /\ irq_pc = "complete" =>
          irq_log = SubSeq(irq_log, 1, 3) \o << IrqEvent("return", irq_number, "Ok") >>
    /\ (irq_pc = "returned" /\ InRange) =>
          irq_log = << IrqEvent("ack", irq_number, ""),
                       IrqEvent("read", irq_number, ""),
                       IrqEvent("handle", irq_number, HandlerOf(irq_number)),
                       IrqEvent("return", irq_number, "Ok"),
                       IrqEvent("eoi", irq_number, "") >>

\* C7 witness: with handlers at 33 and 153, IRQ 153 was dispatched to the uart
\* handler and completed.
C7_Witness ==
    /\ irq_pc = "returned"
    /\ irq_number = 153
    /\ {33, 153} \subseteq DOMAIN handler_table
    /\ irq_log[3] = IrqEvent("handle", 153, "h_uart")
    /\ irq_log[5] = IrqEvent("eoi", 153, "")

Completed == \E k \in 1 .. Len(irq_log) : irq_log[k].ev = "eoi"

\* C8 as stated: for every acknowledged number that is not spurious,
\* completion is signalled, also when no handler is found or the handler
\* returns an error: once handle_pending_irqs has ended, by return or panic,
\* completion has been signalled for the number.
C8_CompletionSignalledUnconditionally ==
    (irq_pc \in {"returned", "panic"} /\ InRange) =>
        \E k \in 1 .. Len(irq_log) : irq_log[k] = IrqEvent("eoi", irq_number, "")

\* C8 amended: completion is signalled for an acknowledged, non-spurious
\* number exactly when a handler was found and returned Ok; when the lookup
\* finds no handler or the handler returns an error the kernel panics inside
\* the table read and completion is never signalled.
C8_CompletionOnlyAfterSuccess ==
    /\ Completed <=> (irq_pc = "returned" /\ InRange)
    /\ irq_pc = "panic" => ~Completed
    /\ \A k \in 1 .. Len(irq_log) :
          irq_log[k].ev = "eoi" =>
              /\ k = Len(irq_log)
              /\ k > 1
              /\ irq_log[k - 1] = IrqEvent("return", irq_number, "Ok")

\* C8 witness: the uart handler returned an error for IRQ 153.
C8_Witness ==
    /\ irq_pc = "panic"
    /\ irq_number = 153
    /\ Unwrap(panic).msg = "Error handling IRQ"

\* C9: handle_pending_irqs does not return normally when the acknowledged
\* in-range number has no handler or when the handler returns an error: it
\* panics; a normal return for an in-range number means a handler was found
\* and returned Ok.
C9_UnhandledOrFailedDispatchPanics ==
    /\ (irq_pc = "returned" /\ InRange) =>
          /\ irq_number \in DOMAIN handler_table
          /\ \E k \in 1 .. Len(irq_log) : irq_log[k] = IrqEvent("return", irq_number, "Ok")
    /\ \A k \in 1 .. Len(irq_log) :
          (irq_log[k].ev = "return" /\ irq_log[k].who # "Ok") =>
              /\ irq_pc = "panic"
              /\ panic = Some(PanicInfo("Error handling IRQ", HandlerOf(irq_number),
                                        irq_log[k].who))
    /\ (InRange /\ irq_pc # "lookup" /\ Len(irq_log) >= 2 /\ irq_number \notin DOMAIN handler_table) =>
          /\ irq_pc = "panic"
          /\ irq_log = << IrqEvent("ack", irq_number, ""), IrqEvent("read", irq_number, "") >>
          /\ panic = Some(PanicInfo("No handler registered for IRQ", "", ToString(irq_number)))
    /\ (InRange /\ irq_pc \notin {"idle", "lookup"} /\ irq_number \notin DOMAIN handler_table) =>
          irq_pc = "panic"

\* C9 witness: IRQ 33 was acknowledged with only the uart handler registered.
C9_Witness ==
    /\ irq_pc = "panic"
    /\ irq_number = 33
    /\ DOMAIN handler_table = {153}
    /\ Unwrap(panic).msg = "No handler registered for IRQ"

\* C10: for an acknowledged value above MAX_IRQ_NUMBER handle_pending_irqs
\* returns at once: no table read, no handler call, no completion, no panic,
\* and the table is unchanged; for a value up to MAX_IRQ_NUMBER it goes on to
\* the table lookup.
C10_SpuriousIsAbsorbed ==
    /\ []((irq_log # <<>> /\ ~InRange) =>
             /\ irq_pc = "returned"
             /\ irq_log = << IrqEvent("ack", irq_number, "") >>
             /\ irq_desc = None
             /\ panic = None)
    /\ []((irq_log # <<>> /\ InRange /\ Len(irq_log) = 1) => irq_pc = "lookup")
    /\ [][(irq_log' # irq_log /\ irq_number' > MAX_IRQ_NUMBER)
             => handler_table' = handler_table]_vars

\* C10 witness: the value MAX_IRQ_NUMBER + 1 was acknowledged while slot
\* MAX_IRQ_NUMBER holds a handler.
C10_Witness ==
    /\ irq_pc = "returned"
    /\ irq_number = MAX_IRQ_NUMBER + 1
    /\ MAX_IRQ_NUMBER \in DOMAIN handler_table

\* ------------------------------------------------------------------------
\* Properties of handle_pending_irqs and the handler table (SpecGic)
\* ------------------------------------------------------------------------

\* A step of handle_pending_irqs: its position, its log, the acknowledged
\* number or the descriptor it holds changes.
IrqStep ==
    \/ irq_pc' # irq_pc
    \/ irq_log' # irq_log
    \/ irq_number' # irq_number
    \/ irq_desc' # irq_desc

\* C11: no step of handle_pending_irqs (spurious return, dispatch, abort by
\* panic) changes the handler table; the descriptor a dispatch holds is the
\* one in the table's slot, and it is the descriptor every earlier dispatch of
\* the same IRQ number resolved to.
C11_HandlePendingLeavesTableUnchanged ==
    /\ [][IrqStep => handler_table' = handler_table]_vars
    /\ [](IsSome(irq_desc) => irq_desc = TableSlot(handler_table, irq_number))
    /\ [](IsSome(irq_desc) /\ irq_number \in DOMAIN resolved
            => Unwrap(irq_desc) = resolved[irq_number])

\* An IRQ number whose dispatch completed before is dispatched again: the
\* table read has resolved it and its handler runs.
C11_Witness ==
    /\ irq_pc = "handler"
    /\ IsSome(irq_desc)
    /\ irq_number \in DOMAIN resolved
    /\ ~Completed

\* ------------------------------------------------------------------------
\* Properties of the kernel's use of the handler table (SpecKernel)
\* ------------------------------------------------------------------------

\* C12: the handler table is writable only in the Init phase: once the
\* kernel has left it (table frozen), no register_handler call changes any
\* slot of the table.
C12_FrozenTableNeverChanges ==
    [][phase = "Frozen" => handler_table' = handler_table]_vars

\* handler_table.write() of a registration made during kernel init is running.
InitWriteInProgress == wr_pc = "write" /\ phase = "Init"

\* The step of handle_pending_irqs that runs handler_table.read() up to the
\* call of the handler.
TableReadStep == irq_pc = "lookup" /\ irq_pc' # "lookup"

C14_AtMostOneHolderPerGuard ==
    \A g \in Guards : Holders(g) <= 1

\* The UART is locked from a callback running inside the DriverManager's
\* for_each_descriptor closure: two closures run, one per guard.
C14_Witness ==
    /\ Len(lock_stack) = 2
    /\ lock_stack[1].f.kind = "for_each_descriptor"
    /\ lock_stack[2].f.guard = "PL011_UART"
    /\ Holders("DRIVER_MANAGER") = 1
    /\ Holders("PL011_UART") = 1

\* A step on which lock() returns.
LockReturns == Len(lock_stack') < Len(lock_stack)

\* C15: lock() returns exactly what its closure returned, and a reading
\* acquisition (chars_written) observes the value the most recent writing
\* acquisition of the same guard left, or the constructor's value if none
\* has written.
C15_LockRoundTrip ==
    [][LockReturns =>
        /\ lock_ret' = Some([f |-> Top.f, ret |-> Top.ret])
        /\ Top.f.kind = "chars_written"
            => Unwrap(lock_ret').ret = Usize(written[Top.f.guard])]_vars

\* chars_written() returned the count that earlier write acquisitions left.
C15_Witness ==
    /\ IsSome(lock_ret)
    /\ Unwrap(lock_ret).f.kind = "chars_written"
    /\ Unwrap(lock_ret).ret.n >= 2
    /\ Unwrap(lock_ret).ret.n = cell["PL011_UART"]

\* ------------------------------------------------------------------------
\* Properties of the descent from EL2 to EL1 (SpecBoot)
\* ------------------------------------------------------------------------

\* C16: the staging writes and the exception return happen in the order
\* CNTHCTL_EL2, CNTVOFF_EL2, HCR_EL2, SPSR_EL2, ELR_EL2, SP_EL1, eret: what
\* has been executed is always a prefix of that order, so the exception
\* return comes only after all six writes and before none of them.
C16_DescentStepsInOrder ==
    /\ IsPrefix(boot_log, BootOrder)
    /\ (\E k \in DOMAIN boot_log : boot_log[k] = "eret") => boot_log = BootOrder

\* The exception return has been executed.
C16_Witness ==
    /\ boot_log = BootOrder
    /\ boot_pc = "kernel_init"

Returned == boot_log # <<>> /\ boot_log[Len(boot_log)] = "eret"

\* C17: in the state the exception return produces, execution is at
\* kernel_init, at EL1 on SP_EL1 (mode EL1h), with D, A, I and F masked, and
\* the stack pointer is the address _start_rust was given.
C17_StateAfterExceptionReturn ==
    Returned =>
        /\ boot_pc = "kernel_init"
        /\ cpu.el = 1
        /\ cpu.pstate.M = "EL1h"
        /\ cpu.pstate.D /\ cpu.pstate.A /\ cpu.pstate.I /\ cpu.pstate.F
        /\ cpu.sp = stack_arg
        /\ cpu.sp = sysregs.SP_EL1

\* The return was made from registers that held other values at reset.
C17_Witness ==
    /\ Returned
    /\ cpu.el = 1
    /\ cpu.sp = 589824
    /\ kernel_steps = 0

\* The boot core executes a statement of _start_rust.
InStartRust == \E k \in DOMAIN BootOrder : boot_pc = BootOrder[k]

\* C18: once _start_rust has issued the exception return, control is never
\* in _start_rust (or before it) again, and the kernel's entry point is
\* entered by that exception return only.
C18_HandoffIsOneWay ==
    /\ [][Returned => ~InStartRust' /\ boot_pc' # "reset"]_vars
    /\ [][boot_pc # "kernel_init" /\ boot_pc' = "kernel_init"
            => boot_pc = "eret" /\ boot_log' = Append(boot_log, "eret")]_vars
    /\ [](Returned => ~InStartRust)

\* The kernel has run on after the handoff.
C18_Witness ==
    /\ Returned
    /\ boot_pc = "kernel_init"
    /\ kernel_steps = MaxKernelSteps

\* ------------------------------------------------------------------------
\* Properties of GICv2::init (SpecGicInit)
\* ------------------------------------------------------------------------

\* The calls a complete init makes on a core.
InitCallsOn(core) ==
    (IF core = BOOT_CORE_ID THEN <<"gicd.boot_core_init">> ELSE <<>>)
    \o <<"gicc.priority_accept_all", "gicc.enable">>

\* C19: init brings up the Distributor exactly when the executing core is
\* the boot core, brings up the CPU interface (accept all priorities, then
\* enable) on every core, Distributor first when both run, and returns Ok.
C19_InitBringsUpByCore ==
    /\ IsPrefix(ginit_log, InitCallsOn(ginit_core))
    /\ ginit_pc = "done" =>
          /\ ginit_log = InitCallsOn(ginit_core)
          /\ ginit_ret = Some(Ok)
          /\ ginit_core \in gic_hw.accept_all
          /\ ginit_core \in gic_hw.cpu_if
    /\ IsSome(ginit_ret) => ginit_ret = Some(Ok)
    /\ gic_hw.gicd_ready => BOOT_CORE_ID \in gic_hw.accept_all \/ ginit_core = BOOT_CORE_ID

\* init has returned on a core other than the boot core, after the boot core
\* brought up the Distributor.
C19_Witness ==
    /\ ginit_pc = "done"
    /\ ginit_core # BOOT_CORE_ID
    /\ ginit_log = <<"gicc.priority_accept_all", "gicc.enable">>
    /\ gic_hw.gicd_ready
    /\ BOOT_CORE_ID \in gic_hw.cpu_if

\* ------------------------------------------------------------------------
\* Properties of the board's driver bring-up (SpecBsp)
\* ------------------------------------------------------------------------

\* C20: when the UART's post-init callback has run (the UART is registered
\* as the console), the GPIO driver has been registered and initialized and
\* its post-init callback has mapped the UART's pins.
C20_GpioReadyBeforeUartPostInit ==
    IsSome(cur_console) =>
        /\ \E k \in DOMAIN registered : registered[k] = gpio_descriptor
        /\ hw_inited[compatible(gpio_descriptor)] >= 1
        /\ pins_mapped

\* C21: over any sequence of register, init_drivers and enumerate calls, a
\* registered driver's init is executed at most once in total, and exactly
\* once when an init_drivers call has completed.
C21_BroughtUpExactlyOnce ==
    /\ \A d \in BoardDrivers : hw_inited[d] <= 1
    /\ pc = "done" =>
         \A k \in DOMAIN registered : hw_inited[compatible(registered[k])] = 1

\* ------------------------------------------------------------------------
\* Properties of print_handler (SpecGic)
\* ------------------------------------------------------------------------

\* The lines report exactly the occupied slots numbered from `from` on, each
\* with its own number and name, in ascending order of the number.
ReportsOccupiedFrom(lines, table, from) ==
    /\ {<<lines[k].i, lines[k].name>> : k \in DOMAIN lines}
         = {<<n, table[n].name>> : n \in {m \in DOMAIN table : m >= from}}
    /\ \A j, k \in DOMAIN lines : j < k => lines[j].i < lines[k].i

\* C22 as stated: print_handler reports every occupied slot of the table,
\* each once with its number and name in ascending order, no empty slot,
\* and leaves the table unchanged.
C22_PrintReportsEveryOccupiedSlot ==
    [][handler_printed' # handler_printed =>
        /\ ReportsOccupiedFrom(handler_printed', handler_table, 0)
        /\ handler_table' = handler_table]_vars

\* C22: print_handler reports every occupied slot with IRQ number 32 or
\* above (the peripheral IRQs), each once with its number and name in
\* ascending order, reports no empty slot and no slot below 32, and leaves
\* the table unchanged.
C22_PrintReportsPeripheralSlots ==
    [][handler_printed' # handler_printed =>
        /\ ReportsOccupiedFrom(handler_printed', handler_table, 32)
        /\ handler_table' = handler_table]_vars

\* Two peripheral handlers have been reported while slot 0 holds a handler
\* that the report leaves out.
C22_Witness ==
    /\ Len(handler_printed) >= 2
    /\ 0 \in DOMAIN handler_table
    /\ ReportsOccupiedFrom(handler_printed, handler_table, 32)

\* ------------------------------------------------------------------------
\* Properties of enumerate as a read-only operation (SpecDrv)
\* ------------------------------------------------------------------------

\* A step of enumerate: the only operation that ends in "enumerated".
EnumerateStep == pc' = "enumerated" /\ <<pc, printed>> # <<pc', printed'>>

NumbersCalled == {reg_calls[k].descriptor.number : k \in DOMAIN reg_calls}

PairwiseDistinctNumbers ==
    \A j, k \in DOMAIN reg_calls :
        j # k => reg_calls[j].descriptor.number # reg_calls[k].descriptor.number

\* C24: registration is order-independent.  When the descriptors of a
\* sequence of calls have pairwise distinct IRQ numbers, every call succeeds
\* and the table holds exactly these descriptors, each in the slot of its
\* number, whatever the order of the calls was; and for every IRQ number,
\* however many descriptors of the sequence share it, exactly one call for
\* that number succeeds.
C24_RegistrationOrderIndependent ==
    /\ PairwiseDistinctNumbers =>
         /\ \A k \in DOMAIN reg_calls : reg_calls[k].ok
         /\ DOMAIN handler_table = NumbersCalled
         /\ \A k \in DOMAIN reg_calls :
              handler_table[reg_calls[k].descriptor.number] = reg_calls[k].descriptor
    /\ \A n \in NumbersCalled :
         Cardinality({k \in DOMAIN reg_calls :
                        reg_calls[k].descriptor.number = n /\ reg_calls[k].ok}) = 1

\* Three calls were made: two descriptors that share IRQ 33, the second one
\* of the descriptor set first, and a descriptor for another number.
C24_Witness ==
    /\ Len(reg_calls) = 3
    /\ reg_calls[1].descriptor.name = "timer_b"
    /\ reg_calls[2].descriptor.name = "timer"
    /\ reg_calls[3].descriptor.number = 153
    /\ reg_calls[1].ok /\ ~reg_calls[2].ok /\ reg_calls[3].ok

\* C25: bsp::driver::init runs its registrations at most once.  Once a call
\* has succeeded (INIT_DONE), the registry holds the UART descriptor followed
\* by the GPIO descriptor, each exactly once, in slots 0 and 1; no later step
\* registers a driver, and a later call of init does not enter the
\* registrations but returns Err("Init already done").
C25_BoardInitRegistersOnce ==
    [][/\ INIT_DONE' =>
            /\ registered' = <<uart_descriptor, gpio_descriptor>>
            /\ next_index' = 2
            /\ descriptors'[0] = Some(uart_descriptor)
            /\ descriptors'[1] = Some(gpio_descriptor)
       /\ INIT_DONE =>
            /\ registered' = registered
            /\ descriptors' = descriptors
            /\ next_index' = next_index
            /\ bsp_pc' = "returned"
            /\ bsp_ret' # bsp_ret => bsp_ret' = Some(Err("Init already done"))]_vars

\* A call after the successful one has returned the error, and the registry
\* holds the two board descriptors.
C25_Witness ==
    /\ INIT_DONE
    /\ bsp_ret = Some(Err("Init already done"))
    /\ registered = <<uart_descriptor, gpio_descriptor>>

\* C26: no closure re-enters a guard that is held.  While the closure of
\* for_each_descriptor (init_drivers, enumerate) runs under the driver
\* manager's guard, nothing it calls (driver init, post-init callback,
\* printing) acquires the driver manager's guard; and while a driver's init
\* runs under that driver's inner guard, nothing acquires that guard.
C26_NoReentryIntoHeldGuard ==
    \A j, k \in DOMAIN lock_stack :
        j < k =>
            /\ lock_stack[j].f.kind = "for_each_descriptor"
                 => lock_stack[k].f.guard # "DRIVER_MANAGER"
            /\ lock_stack[j].f.kind = "init"
                 => lock_stack[k].f.guard # lock_stack[j].f.guard

\* The UART's init has run to its end under the UART's guard, called from
\* the for_each_descriptor closure that still holds the manager's guard.
C26_Witness ==
    /\ Len(lock_stack) = 2
    /\ lock_stack[1].f.kind = "for_each_descriptor" /\ ~lock_stack[1].done
    /\ lock_stack[2].f.kind = "init" /\ lock_stack[2].done

\* ------------------------------------------------------------------------
\* The shape of the registry (SpecDrv)
\* ------------------------------------------------------------------------

\* next_index is at most the capacity, and exactly the slots below it hold
\* a descriptor.
RegistryShape(index, table) ==
    /\ index \in 0 .. NUM_DRIVERS
    /\ \A s \in Slots : IsSome(table[s]) <=> s < index

\* C27: next_index never exceeds the capacity; exactly the slots below
\* next_index hold a descriptor and the slots at or above it are empty;
\* next_index never decreases; and a filled slot is never changed or
\* emptied.
C27_RegistryGrowsMonotonically ==
    [][/\ RegistryShape(next_index, descriptors)
       /\ RegistryShape(next_index', descriptors')
       /\ next_index' >= next_index
       /\ \A s \in Slots : IsSome(descriptors[s]) => descriptors'[s] = descriptors[s]]_vars

\* The registry is full, a further registration has been refused by the
\* bounds check, and init_drivers had run on the partly filled registry.
C27_Witness ==
    /\ next_index = NUM_DRIVERS
    /\ \A s \in Slots : IsSome(descriptors[s])
    /\ pc = "panic"
    /\ calls # <<>>

\* ------------------------------------------------------------------------
\* Properties of spin_for and of the conversion (SpecTime)
\* ------------------------------------------------------------------------

\* spin_for has returned from a call whose duration converted.
SpunAndReturned ==
    time_pc = "returned" /\ IsSome(spin_conv) /\ Unwrap(spin_conv).ok

\* C28: when spin_for(d) returns for a duration that converts to a counter
\* delta, the counter has advanced by at least that delta since spin_for was
\* entered, whatever the counter value at entry was, also when entry value
\* plus delta wraps around.
C28_SpinForWaitsForDelta ==
    SpunAndReturned => spin_elapsed >= Unwrap(spin_conv).val

\* The counter ticks that fit into a duration, and what is left of the
\* duration below one more tick (in units of 1 / frequency nanoseconds).
WholeTicks(duration, freq) ==
    duration.secs * freq + (duration.nanos * freq) \div NANOSEC_PER_SEC
TickRemainder(duration, freq) == (duration.nanos * freq) % NANOSEC_PER_SEC

\* The duration is longer than the largest counter value's ticks.
TooBig(duration, freq) ==
    \/ WholeTicks(duration, freq) > GenericTimerCounterValue_MAX
    \/ /\ WholeTicks(duration, freq) = GenericTimerCounterValue_MAX
       /\ TickRemainder(duration, freq) > 0

\* C29: the conversion of a Duration fails, with the "Duration too big"
\* error, exactly when the duration is longer than the duration of the
\* maximum counter value; it yields counter value 0 when the duration is
\* shorter than one counter tick; and spin_for on a failed conversion has
\* passed the error to warn! and returned without a single pass of its loop.
C29_ConversionErrorsAndSkip ==
    IsSome(spin_arg) =>
        LET duration == Unwrap(spin_arg)
            conv == Unwrap(spin_conv)
        IN  /\ ~conv.ok <=> TooBig(duration, frequency)
            /\ ~conv.ok => conv.err = "Conversion error. Duration too big"
            /\ WholeTicks(duration, frequency) = 0 => conv.ok /\ conv.val = 0
            /\ ~conv.ok =>
                 /\ spin_warned = Some("Conversion error. Duration too big")
                 /\ time_pc = "returned"
                 /\ spin_elapsed = 0
            /\ conv.ok => spin_warned = None

\* spin_for was called with a duration of twice the largest one (frequency
\* 2) and has returned with the warning, while the counter has moved on
\* from its reset value.
C29_Witness ==
    /\ frequency = 2
    /\ spin_arg = Some(Duration(GenericTimerCounterValue_MAX, 0))
    /\ ~Unwrap(spin_conv).ok
    /\ spin_warned = Some("Conversion error. Duration too big")
    /\ time_pc = "returned"
    /\ CNTPCT_EL0 > 0

\* ------------------------------------------------------------------------
\* Properties of PL011UartInner::init (SpecUart)
\* ------------------------------------------------------------------------

\* The register accesses of one init, in the order of the code.
InitOrder == <<"FR_idle", "CR_disable", "ICR_clear", "IBRD", "FBRD", "LCR_H", "CR_enable">>

\* The log without the busy reading that may stand at its head.
AfterWait(log) == IF log # <<>> /\ Head(log) = "FR_busy" THEN Tail(log) ELSE log

\* C30: init first waits until the UART is not busy and only then disables
\* it (no character is queued when CR is cleared) and clears the pending
\* interrupts; it writes IBRD and FBRD before LCR_H, whose write latches
\* them; its last write enables the UART with TX and RX; and between the
\* disable and that last write the UART is never enabled.
C30_InitProgramsInOrder ==
    /\ IsPrefix(AfterWait(uart_log), InitOrder)
    /\ uart_pc \in {"CR_disable", "ICR_clear", "IBRD", "FBRD", "LCR_H", "CR_enable"}
         => tx_queued = 0
    /\ uart_pc \in {"ICR_clear", "IBRD", "FBRD", "LCR_H", "CR_enable"}
         => ~uart_regs.UARTEN /\ ~uart_regs.TXE /\ ~uart_regs.RXE
    /\ uart_pc \in {"IBRD", "FBRD", "LCR_H", "CR_enable"} => ~uart_regs.pending
    /\ uart_pc = "CR_enable" => uart_regs.latched = <<3, 16>>
    /\ AfterWait(uart_log) = InitOrder =>
         /\ uart_pc = "idle"
         /\ uart_regs.UARTEN /\ uart_regs.TXE /\ uart_regs.RXE
         /\ uart_regs.latched = <<3, 16>>

\* init found the UART busy, waited, and is about to make its last write:
\* the UART is disabled and the new divisors are latched.
C30_Witness ==
    /\ uart_pc = "CR_enable"
    /\ uart_log = <<"FR_busy", "FR_idle", "CR_disable", "ICR_clear", "IBRD", "FBRD", "LCR_H">>
    /\ ~uart_regs.UARTEN
    /\ uart_regs.latched = <<3, 16>>

====
